---- MODULE Spec2Model ----
(***************************************************************************)
(* Workspace file-mutation subsystem of apps/web: the route handlers       *)
(* DELETE/POST /api/workspace/file, POST /api/workspace/{rename,move,copy, *)
(* mkdir}, over a model of the local disk.  Paths are strings, handled     *)
(* character by character as node:path (posix) handles them.               *)
(*                                                                         *)
(* Live synchronization: the event streams of GET /api/workspace/watch and *)
(* the useWorkspaceWatcher hook of one browser tab, with their timers on a *)
(* clock of 100 ms ticks.                                                  *)
(*                                                                         *)
(* Concurrent mutation requests: each handler suspends once, at            *)
(* `await req.json()`, and runs to its return when it resumes.             *)
(***************************************************************************)
EXTENDS Integers, Sequences, FiniteSets, TLC

VARIABLES
  fs,     \* the disk: absolute path -> [dir, content]
  req,    \* the request whose handler ran last (NoReq when none is open)
  resp,   \* the Response that handler returned
  io,     \* the mutating node:fs calls that handler made, in order
  prev,   \* the disk as it was when that handler started
  n,      \* number of requests handled so far
  watch,  \* the open GET /api/workspace/watch requests: id -> stream state
  hook,   \* the useWorkspaceWatcher instance of one browser tab
  agent,  \* the out-of-band writer: what it has done to the workspace
  inflight \* the mutation requests in flight at once: slot -> request

vars == <<fs, req, resp, io, prev, n, watch, hook, agent, inflight>>

\* The state of the mutation routes' request, apart from the disk.
routeVars == <<req, resp, io, prev, n, inflight>>

\* The state of the synchronization pipeline.
liveVars == <<watch, hook, agent>>

(* ------------------------------------------------------------------ *)
(* Bounds                                                              *)
(* ------------------------------------------------------------------ *)

\* Requests handled in one behaviour.
MaxOps == 2

\* Mutation requests in flight at once.
MaxInflight == 2

(* ------------------------------------------------------------------ *)
(* String helpers (JavaScript String.prototype)                         *)
(* ------------------------------------------------------------------ *)

Char(s, i) == SubSeq(s, i, i)

Slice(s, from) == SubSeq(s, from, Len(s))

StartsWith(s, p) == Len(p) <= Len(s) /\ SubSeq(s, 1, Len(p)) = p

EndsWith(s, p) == Len(p) <= Len(s) /\ SubSeq(s, Len(s) - Len(p) + 1, Len(s)) = p

Includes(s, p) == \E i \in 1..(Len(s) - Len(p) + 1) : SubSeq(s, i, i + Len(p) - 1) = p

\* s.trim() === ""
TrimIsEmpty(s) == \A i \in 1..Len(s) : Char(s, i) \in {" ", "\t", "\n"}

\* s.split("/")
RECURSIVE SplitFrom(_, _, _)
SplitFrom(s, i, cur) ==
  IF i > Len(s) THEN <<cur>>
  ELSE IF Char(s, i) = "/" THEN <<cur>> \o SplitFrom(s, i + 1, "")
  ELSE SplitFrom(s, i + 1, cur \o Char(s, i))

Split(s) == SplitFrom(s, 1, "")

\* segs.join("/")
RECURSIVE JoinSegs(_)
JoinSegs(segs) ==
  IF Len(segs) = 0 THEN ""
  ELSE IF Len(segs) = 1 THEN segs[1]
  ELSE segs[1] \o "/" \o JoinSegs(Tail(segs))

\* s without its trailing "/" characters: dirname and basename skip them.
StripTrailingSlashes(s) ==
  LET keep == {i \in 1..Len(s) : Char(s, i) # "/"}
  IN  IF keep = {} THEN "" ELSE SubSeq(s, 1, CHOOSE i \in keep : \A j \in keep : j <= i)

LastSlash(s) ==
  LET at == {i \in 1..Len(s) : Char(s, i) = "/"}
  IN  IF at = {} THEN 0 ELSE CHOOSE i \in at : \A j \in at : j <= i

LastDot(s) ==
  LET at == {i \in 1..Len(s) : Char(s, i) = "."}
  IN  IF at = {} THEN 0 ELSE CHOOSE i \in at : \A j \in at : j <= i

(* ------------------------------------------------------------------ *)
(* node:path (posix)                                                    *)
(* ------------------------------------------------------------------ *)

\* normalizeString: drops empty and "." segments, resolves ".." against the
\* segment before it, keeps a leading ".." only when allowAboveRoot.
RECURSIVE NormalizeSegs(_, _, _)
NormalizeSegs(segs, acc, allowAboveRoot) ==
  IF Len(segs) = 0 THEN acc
  ELSE LET s == Head(segs)
           rest == Tail(segs)
       IN  IF s = "" \/ s = "." THEN NormalizeSegs(rest, acc, allowAboveRoot)
           ELSE IF s = ".." THEN
                  IF Len(acc) > 0 /\ acc[Len(acc)] # ".."
                    THEN NormalizeSegs(rest, SubSeq(acc, 1, Len(acc) - 1), allowAboveRoot)
                  ELSE IF allowAboveRoot
                    THEN NormalizeSegs(rest, Append(acc, ".."), allowAboveRoot)
                  ELSE NormalizeSegs(rest, acc, allowAboveRoot)
           ELSE NormalizeSegs(rest, Append(acc, s), allowAboveRoot)

\* path.normalize(p)
Normalize(p) ==
  IF p = "" THEN "."
  ELSE LET isAbsolute == Char(p, 1) = "/"
           trailing   == Char(p, Len(p)) = "/"
           body       == JoinSegs(NormalizeSegs(Split(p), <<>>, ~isAbsolute))
       IN  IF body = "" THEN (IF isAbsolute THEN "/" ELSE IF trailing THEN "./" ELSE ".")
           ELSE (IF isAbsolute THEN "/" ELSE "") \o body \o (IF trailing THEN "/" ELSE "")

\* path.join(a, b)
Join(a, b) ==
  LET joined == IF a = "" THEN b ELSE IF b = "" THEN a ELSE a \o "/" \o b
  IN  IF joined = "" THEN "." ELSE Normalize(joined)

\* path.resolve(from, to), from absolute
Resolve(from, to) ==
  LET full == IF StartsWith(to, "/") THEN to ELSE from \o "/" \o to
      body == JoinSegs(NormalizeSegs(Split(full), <<>>, FALSE))
  IN  "/" \o body

\* path.dirname(p): the scan runs from the end down to the second character,
\* skipping trailing slashes, and cuts at the first "/" after a name.
Dirname(p) ==
  IF p = "" THEN "."
  ELSE LET hasRoot == Char(p, 1) = "/"
           core    == StripTrailingSlashes(p)
           at      == {i \in 2..Len(core) : Char(core, i) = "/"}
           cut     == IF at = {} THEN 0 ELSE CHOOSE i \in at : \A j \in at : j <= i
       IN  IF cut = 0 THEN (IF hasRoot THEN "/" ELSE ".")
           ELSE IF hasRoot /\ cut = 2 THEN "//"
           ELSE SubSeq(core, 1, cut - 1)

\* path.basename(p)
Basename(p) ==
  LET core == StripTrailingSlashes(p)
  IN  Slice(core, LastSlash(core) + 1)

\* path.extname(name), name without "/"
Extname(name) ==
  LET dot == LastDot(name)
  IN  IF dot = 0 \/ dot = 1 THEN ""
      ELSE IF name = ".." THEN ""
      ELSE Slice(name, dot)

(* ------------------------------------------------------------------ *)
(* lib/workspace: root, system files, path resolution                   *)
(* ------------------------------------------------------------------ *)

\* WorkspaceRoot: one absolute directory, fixed for the process.
Root == "/ws"

\* What the resolvers return on rejection; falsy, as the handlers test it.
Null == ""

\* SYSTEM_FILE_PATTERNS.some(p => p.test(basename)), where basename is
\* relativePath.split("/").pop().
isSystemFile(relativePath) ==
  LET segs == Split(relativePath)
      basename == segs[Len(segs)]
  IN  \/ basename = ".object.yaml"
      \/ StartsWith(basename, "workspace.duckdb")
      \/ basename = "workspace_context.yaml"
      \/ EndsWith(basename, ".wal")
      \/ EndsWith(basename, ".tmp")

\* A drive-letter form (C:...).
DriveLetter(p) ==
  /\ Len(p) >= 2
  /\ Char(p, 2) = ":"
  /\ Char(p, 1) \in {"A", "B", "C", "D", "E", "F", "G", "H", "I", "J", "K", "L", "M",
                     "N", "O", "P", "Q", "R", "S", "T", "U", "V", "W", "X", "Y", "Z",
                     "a", "b", "c", "d", "e", "f", "g", "h", "i", "j", "k", "l", "m",
                     "n", "o", "p", "q", "r", "s", "t", "u", "v", "w", "x", "y", "z"}

\* Inputs the resolver refuses before looking at the disk: the empty string,
\* backslashes, absolute and drive-letter forms, any ".." segment.
Refused(relativePath) ==
  \/ relativePath = ""
  \/ Includes(relativePath, "\\")
  \/ StartsWith(relativePath, "/")
  \/ DriveLetter(relativePath)
  \/ \E i \in 1..Len(Split(relativePath)) : Split(relativePath)[i] = ".."

\* The containment check on the normalized absolute form.  The disk of this
\* model holds no symbolic links, so the normalized form is the canonical one.
InsideRoot(abs) == abs = Root \/ StartsWith(abs, Root \o "/")

\* resolve(relativePath) without the test that the entry exists.
safeResolvePath_Unchecked(relativePath, disk) ==
  IF Refused(relativePath) THEN Null
  ELSE LET abs == Resolve(Root, Normalize(relativePath))
       IN  IF ~InsideRoot(abs) THEN Null ELSE abs

\* resolve(relativePath, mustExist): the absolute path of an existing entry
\* inside the root (the root itself for "."), Null otherwise.
safeResolvePath(relativePath, disk) ==
  IF Refused(relativePath) THEN Null
  ELSE LET abs == Resolve(Root, Normalize(relativePath))
       IN  IF ~InsideRoot(abs) THEN Null
           ELSE IF abs \notin DOMAIN disk THEN Null
           ELSE abs

\* resolve(relativePath, mayNotExist): the entry need not exist, its parent
\* directory must resolve inside the root.
safeResolveNewPath(relativePath, disk) ==
  IF Refused(relativePath) THEN Null
  ELSE LET abs == Resolve(Root, Normalize(relativePath))
       IN  IF ~InsideRoot(abs) THEN Null
           ELSE IF ~InsideRoot(Dirname(abs)) THEN Null
           ELSE abs

(* ------------------------------------------------------------------ *)
(* node:fs over the disk                                                *)
(* ------------------------------------------------------------------ *)

Dir == [dir |-> TRUE, content |-> ""]

File(content) == [dir |-> FALSE, content |-> content]

\* q is p or lies below p.
Under(q, p) == q = p \/ StartsWith(q, IF p = "/" THEN p ELSE p \o "/")

Subtree(disk, p) == {q \in DOMAIN disk : Under(q, p)}

Without(disk, gone) == [q \in DOMAIN disk \ gone |-> disk[q]]

\* The proper ancestors of an absolute path, "/" included.
RECURSIVE Ancestors(_)
Ancestors(p) == IF p = "/" THEN {} ELSE {Dirname(p)} \cup Ancestors(Dirname(p))

\* What a node:fs call returns to the handler: the disk after it, and the
\* message of the Error it threw ("" when it returned normally).
Returns(disk) == [err |-> "", disk |-> disk]

Throws(disk, message) == [err |-> message, disk |-> disk]

existsSync(disk, p) == p \in DOMAIN disk

\* statSync(p).isDirectory()
isDirectory(disk, p) == p \in DOMAIN disk /\ disk[p].dir

\* rmSync(p, {recursive})
rmSync(disk, p, recursive) ==
  IF p \notin DOMAIN disk
    THEN Throws(disk, "ENOENT: no such file or directory, lstat '" \o p \o "'")
  ELSE IF disk[p].dir /\ ~recursive
    THEN Throws(disk, "Path is a directory: rm returned EISDIR (is a directory) " \o p)
  ELSE Returns(Without(disk, Subtree(disk, p)))

\* The entries of the subtree at a, carried to b.
Carried(disk, a, b) ==
  [q \in {b \o Slice(s, Len(a) + 1) : s \in Subtree(disk, a)} |->
     disk[a \o Slice(q, Len(b) + 1)]]

\* renameSync(a, b): rename(2)
renameSync(disk, a, b) ==
  LET told == "rename '" \o a \o "' -> '" \o b \o "'"
      moved == Carried(disk, a, b)
      rest == Without(disk, Subtree(disk, a) \cup Subtree(disk, b))
  IN  IF a \notin DOMAIN disk \/ Dirname(b) \notin DOMAIN disk
        THEN Throws(disk, "ENOENT: no such file or directory, " \o told)
      ELSE IF ~disk[Dirname(b)].dir
        THEN Throws(disk, "ENOTDIR: not a directory, " \o told)
      ELSE IF a = b THEN Returns(disk)
      ELSE IF Under(b, a)
        THEN Throws(disk, "EINVAL: invalid argument, " \o told)
      ELSE IF b \in DOMAIN disk /\ disk[a].dir /\ ~disk[b].dir
        THEN Throws(disk, "ENOTDIR: not a directory, " \o told)
      ELSE IF b \in DOMAIN disk /\ ~disk[a].dir /\ disk[b].dir
        THEN Throws(disk, "EISDIR: illegal operation on a directory, " \o told)
      ELSE IF b \in DOMAIN disk /\ Subtree(disk, b) # {b}
        THEN Throws(disk, "ENOTEMPTY: directory not empty, " \o told)
      ELSE Returns([q \in DOMAIN rest \cup DOMAIN moved |->
                      IF q \in DOMAIN moved THEN moved[q] ELSE rest[q]])

\* mkdirSync(p, {recursive: true})
mkdirSync(disk, p) ==
  LET chain == {p} \cup Ancestors(p)
      made == chain \ DOMAIN disk
  IN  IF p \in DOMAIN disk /\ ~disk[p].dir
        THEN Throws(disk, "EEXIST: file already exists, mkdir '" \o p \o "'")
      ELSE IF \E q \in chain : q \in DOMAIN disk /\ ~disk[q].dir
        THEN Throws(disk, "ENOTDIR: not a directory, mkdir '" \o p \o "'")
      ELSE Returns([q \in DOMAIN disk \cup made |-> IF q \in made THEN Dir ELSE disk[q]])

\* writeFileSync(p, content, "utf-8")
writeFileSync(disk, p, content) ==
  IF p \in DOMAIN disk /\ disk[p].dir
    THEN Throws(disk, "EISDIR: illegal operation on a directory, open '" \o p \o "'")
  ELSE IF Dirname(p) \notin DOMAIN disk
    THEN Throws(disk, "ENOENT: no such file or directory, open '" \o p \o "'")
  ELSE IF ~disk[Dirname(p)].dir
    THEN Throws(disk, "ENOTDIR: not a directory, open '" \o p \o "'")
  ELSE Returns([q \in DOMAIN disk \cup {p} |-> IF q = p THEN File(content) ELSE disk[q]])

\* cpSync(src, dest, {recursive}): refuses a directory without recursive and a
\* destination inside the source, creates the destination's missing parents,
\* then copies the subtree.
cpSync(disk, src, dest, recursive) ==
  LET parents == mkdirSync(disk, Dirname(dest))
      copied == Carried(disk, src, dest)
      base == parents.disk
  IN  IF src \notin DOMAIN disk
        THEN Throws(disk, "ENOENT: no such file or directory, lstat '" \o src \o "'")
      ELSE IF src = dest
        THEN Throws(disk, "src and dest cannot be the same " \o src \o " " \o dest)
      ELSE IF disk[src].dir /\ ~recursive
        THEN Throws(disk, "Recursive option not enabled, cannot copy a directory: " \o src)
      ELSE IF disk[src].dir /\ Under(dest, src)
        THEN Throws(disk, "cannot copy " \o src \o " to a subdirectory of self " \o dest)
      ELSE IF dest \in DOMAIN disk /\ disk[src].dir /\ ~disk[dest].dir
        THEN Throws(disk, "cannot overwrite non-directory " \o dest \o " with directory " \o src)
      ELSE IF dest \in DOMAIN disk /\ ~disk[src].dir /\ disk[dest].dir
        THEN Throws(disk, "cannot overwrite directory " \o dest \o " with non-directory " \o src)
      ELSE IF parents.err # "" THEN Throws(disk, parents.err)
      ELSE Returns([q \in DOMAIN base \cup DOMAIN copied |->
                      IF q \in DOMAIN copied THEN copied[q] ELSE base[q]])

(* ------------------------------------------------------------------ *)
(* Requests and responses                                               *)
(* ------------------------------------------------------------------ *)

\* A body req.json() cannot parse.
BadJson == [syntaxError |-> TRUE]

ParseFails(body) == "syntaxError" \in DOMAIN body

\* A field of the parsed body; "" stands for a missing one, which the
\* handlers' falsy tests treat like the empty string.  Every value is a string.
Field(body, f) == IF f \in DOMAIN body THEN body[f] ELSE ""

\* Response.json({error}, {status})
Failure(status, message) == [status |-> status, error |-> message]

\* What a handler leaves behind: its Response, the disk, the node:fs calls
\* it made that can change the disk.
Done(response, disk, calls) == [resp |-> response, disk |-> disk, io |-> calls]

Call(fn, target) == [fn |-> fn, target |-> target]

(* ------------------------------------------------------------------ *)
(* DELETE /api/workspace/file                                           *)
(* ------------------------------------------------------------------ *)

\* The handler with the system-file check made after the removal.
DELETE_RemoveFirst(body, disk) ==
  LET relPath == Field(body, "path")
      absPath == safeResolvePath(relPath, disk)
      removed == rmSync(disk, absPath, isDirectory(disk, absPath))
  IN  IF ParseFails(body) THEN Done(Failure(400, "Invalid JSON body"), disk, <<>>)
      ELSE IF relPath = "" THEN Done(Failure(400, "Missing 'path' field"), disk, <<>>)
      ELSE IF absPath = Null
        THEN Done(Failure(404, "File not found or path traversal rejected"), disk, <<>>)
      ELSE IF removed.err # ""
        THEN Done(Failure(500, removed.err), removed.disk, <<Call("rmSync", absPath)>>)
      ELSE IF isSystemFile(relPath)
        THEN Done(Failure(403, "Cannot delete system file"),
                  removed.disk, <<Call("rmSync", absPath)>>)
      ELSE Done([status |-> 200, ok |-> TRUE, path |-> relPath],
                removed.disk, <<Call("rmSync", absPath)>>)

DELETE(body, disk) ==
  LET relPath == Field(body, "path")
      absPath == safeResolvePath(relPath, disk)
      removed == rmSync(disk, absPath, isDirectory(disk, absPath))
  IN  IF ParseFails(body) THEN Done(Failure(400, "Invalid JSON body"), disk, <<>>)
      ELSE IF relPath = "" THEN Done(Failure(400, "Missing 'path' field"), disk, <<>>)
      ELSE IF isSystemFile(relPath)
        THEN Done(Failure(403, "Cannot delete system file"), disk, <<>>)
      ELSE IF absPath = Null
        THEN Done(Failure(404, "File not found or path traversal rejected"), disk, <<>>)
      ELSE IF removed.err # ""
        THEN Done(Failure(500, removed.err), removed.disk, <<Call("rmSync", absPath)>>)
      ELSE Done([status |-> 200, ok |-> TRUE, path |-> relPath],
                removed.disk, <<Call("rmSync", absPath)>>)

(* ------------------------------------------------------------------ *)
(* POST /api/workspace/file                                             *)
(* ------------------------------------------------------------------ *)

WritePOST(body, disk) ==
  LET relPath == Field(body, "path")
      absPath == safeResolveNewPath(relPath, disk)
      parents == mkdirSync(disk, Dirname(absPath))
      written == writeFileSync(parents.disk, absPath, Field(body, "content"))
  IN  IF ParseFails(body) THEN Done(Failure(400, "Invalid JSON body"), disk, <<>>)
      ELSE IF relPath = "" \/ "content" \notin DOMAIN body
        THEN Done(Failure(400, "Missing 'path' and 'content' fields"), disk, <<>>)
      ELSE IF absPath = Null
        THEN Done(Failure(400, "Invalid path or path traversal rejected"), disk, <<>>)
      ELSE IF parents.err # ""
        THEN Done(Failure(500, parents.err), parents.disk,
                  <<Call("mkdirSync", Dirname(absPath))>>)
      ELSE IF written.err # ""
        THEN Done(Failure(500, written.err), written.disk,
                  <<Call("mkdirSync", Dirname(absPath)), Call("writeFileSync", absPath)>>)
      ELSE Done([status |-> 200, ok |-> TRUE, path |-> relPath], written.disk,
                <<Call("mkdirSync", Dirname(absPath)), Call("writeFileSync", absPath)>>)

(* ------------------------------------------------------------------ *)
(* POST /api/workspace/mkdir                                            *)
(* ------------------------------------------------------------------ *)

\* No look at the disk before mkdirSync.
LeafExists_Unchecked(disk, absPath) == FALSE

\* if (existsSync(absPath)): 409
LeafExists(disk, absPath) == existsSync(disk, absPath)

MkdirPOST(body, disk) ==
  LET relPath == Field(body, "path")
      absPath == safeResolveNewPath(relPath, disk)
      made == mkdirSync(disk, absPath)
  IN  IF ParseFails(body) THEN Done(Failure(400, "Invalid JSON body"), disk, <<>>)
      ELSE IF relPath = "" THEN Done(Failure(400, "Missing 'path' field"), disk, <<>>)
      ELSE IF absPath = Null
        THEN Done(Failure(400, "Invalid path or path traversal rejected"), disk, <<>>)
      ELSE IF LeafExists(disk, absPath)
        THEN Done(Failure(409, "Directory already exists"), disk, <<>>)
      ELSE IF made.err # ""
        THEN Done(Failure(500, made.err), made.disk, <<Call("mkdirSync", absPath)>>)
      ELSE Done([status |-> 200, ok |-> TRUE, path |-> relPath],
                made.disk, <<Call("mkdirSync", absPath)>>)

(* ------------------------------------------------------------------ *)
(* POST /api/workspace/rename                                           *)
(* ------------------------------------------------------------------ *)

\* The test that only refuses a blank name.
InvalidName_BlankOnly(newName) == TrimIsEmpty(newName)

\* newName.includes("/") || newName.includes("\\") || newName.trim() === ""
InvalidName(newName) ==
  Includes(newName, "/") \/ Includes(newName, "\\") \/ TrimIsEmpty(newName)

\* The relative path echoed as newPath and validated with safeResolveNewPath.
RenameRelPath(relPath, newName) ==
  LET parentRel == Dirname(relPath)
  IN  IF parentRel = "." THEN newName ELSE parentRel \o "/" \o newName

\* The new name joined to the workspace root instead of the entry's directory.
RenameAbsPath_FromRoot(absPath, newName) == Join(Root, newName)

\* The absolute path handed to renameSync as the new name.
RenameAbsPath(absPath, newName) == Join(Dirname(absPath), newName)

RenamePOST(body, disk) ==
  LET relPath == Field(body, "path")
      newName == Field(body, "newName")
      absPath == safeResolvePath(relPath, disk)
      newAbsPath == RenameAbsPath(absPath, newName)
      newRelPath == RenameRelPath(relPath, newName)
      validated == safeResolveNewPath(newRelPath, disk)
      renamed == renameSync(disk, absPath, newAbsPath)
  IN  IF ParseFails(body) THEN Done(Failure(400, "Invalid JSON body"), disk, <<>>)
      ELSE IF relPath = "" \/ newName = ""
        THEN Done(Failure(400, "Missing 'path' and 'newName' fields"), disk, <<>>)
      ELSE IF isSystemFile(relPath)
        THEN Done(Failure(403, "Cannot rename system file"), disk, <<>>)
      ELSE IF InvalidName(newName)
        THEN Done(Failure(400, "Invalid file name"), disk, <<>>)
      ELSE IF absPath = Null
        THEN Done(Failure(404, "Source not found or path traversal rejected"), disk, <<>>)
      ELSE IF validated = Null
        THEN Done(Failure(400, "Invalid destination path"), disk, <<>>)
      ELSE IF existsSync(disk, newAbsPath)
        THEN Done(Failure(409, "A file named '" \o newName \o "' already exists"), disk, <<>>)
      ELSE IF renamed.err # ""
        THEN Done(Failure(500, renamed.err), renamed.disk, <<Call("renameSync", newAbsPath)>>)
      ELSE Done([status |-> 200, ok |-> TRUE, oldPath |-> relPath, newPath |-> newRelPath],
                renamed.disk, <<Call("renameSync", newAbsPath)>>)

(* ------------------------------------------------------------------ *)
(* POST /api/workspace/move                                             *)
(* ------------------------------------------------------------------ *)

\* The prefix test without the separator.
IntoItself_NaivePrefix(srcAbs, destDirAbs) == StartsWith(destDirAbs, srcAbs)

\* destDirAbs.startsWith(srcAbs + "/") || destDirAbs === srcAbs
IntoItself(srcAbs, destDirAbs) ==
  StartsWith(destDirAbs, srcAbs \o "/") \/ destDirAbs = srcAbs

\* No conflict test: the destination is taken to be free.
Occupied_Unchecked(disk, destAbs) == FALSE

\* if (existsSync(destAbs))
Occupied(disk, destAbs) == existsSync(disk, destAbs)

MovePOST(body, disk) ==
  LET sourcePath == Field(body, "sourcePath")
      destinationDir == Field(body, "destinationDir")
      srcAbs == safeResolvePath(sourcePath, disk)
      destDirAbs == safeResolvePath(destinationDir, disk)
      itemName == Basename(srcAbs)
      destAbs == Join(destDirAbs, itemName)
      newRelPath == IF destinationDir = "." THEN itemName
                    ELSE destinationDir \o "/" \o itemName
      moved == renameSync(disk, srcAbs, destAbs)
  IN  IF ParseFails(body) THEN Done(Failure(400, "Invalid JSON body"), disk, <<>>)
      ELSE IF sourcePath = "" \/ destinationDir = ""
        THEN Done(Failure(400, "Missing 'sourcePath' and 'destinationDir' fields"), disk, <<>>)
      ELSE IF isSystemFile(sourcePath)
        THEN Done(Failure(403, "Cannot move system file"), disk, <<>>)
      ELSE IF srcAbs = Null
        THEN Done(Failure(404, "Source not found or path traversal rejected"), disk, <<>>)
      ELSE IF destDirAbs = Null
        THEN Done(Failure(404, "Destination not found or path traversal rejected"), disk, <<>>)
      ELSE IF ~isDirectory(disk, destDirAbs)
        THEN Done(Failure(400, "Destination is not a directory"), disk, <<>>)
      ELSE IF IntoItself(srcAbs, destDirAbs)
        THEN Done(Failure(400, "Cannot move a folder into itself"), disk, <<>>)
      ELSE IF Occupied(disk, destAbs)
        THEN Done(Failure(409, "'" \o itemName \o "' already exists in destination"), disk, <<>>)
      ELSE IF moved.err # ""
        THEN Done(Failure(500, moved.err), moved.disk, <<Call("renameSync", destAbs)>>)
      ELSE Done([status |-> 200, ok |-> TRUE, oldPath |-> sourcePath, newPath |-> newRelPath],
                moved.disk, <<Call("renameSync", destAbs)>>)

(* ------------------------------------------------------------------ *)
(* POST /api/workspace/copy                                             *)
(* ------------------------------------------------------------------ *)

\* The destination derived when destinationPath is omitted:
\* "name copy.ext", or "name copy" when extname finds no extension.
CopyName(relPath) ==
  LET name == Basename(relPath)
      dir == Dirname(relPath)
      ext == Extname(name)
      stem == IF ext # "" THEN SubSeq(name, 1, Len(name) - Len(ext)) ELSE name
      copyName == IF ext # "" THEN stem \o " copy" \o ext ELSE stem \o " copy"
  IN  IF dir = "." THEN copyName ELSE dir \o "/" \o copyName

\* A destination taken as sent and joined to the root.
CopyDestination_Joined(destRelPath, disk) == Join(Root, destRelPath)

\* const destAbs = safeResolveNewPath(destRelPath)
CopyDestination(destRelPath, disk) == safeResolveNewPath(destRelPath, disk)

CopyPOST(body, disk) ==
  LET relPath == Field(body, "path")
      destinationPath == Field(body, "destinationPath")
      srcAbs == safeResolvePath(relPath, disk)
      destRelPath == IF destinationPath # "" THEN destinationPath ELSE CopyName(relPath)
      destAbs == CopyDestination(destRelPath, disk)
      copied == cpSync(disk, srcAbs, destAbs, isDirectory(disk, srcAbs))
  IN  IF ParseFails(body) THEN Done(Failure(400, "Invalid JSON body"), disk, <<>>)
      ELSE IF relPath = "" THEN Done(Failure(400, "Missing 'path' field"), disk, <<>>)
      ELSE IF srcAbs = Null
        THEN Done(Failure(404, "Source not found or path traversal rejected"), disk, <<>>)
      ELSE IF destAbs = Null
        THEN Done(Failure(400, "Invalid destination path"), disk, <<>>)
      ELSE IF existsSync(disk, destAbs)
        THEN Done(Failure(409, "Destination already exists"), disk, <<>>)
      ELSE IF copied.err # ""
        THEN Done(Failure(500, copied.err), copied.disk, <<Call("cpSync", destAbs)>>)
      ELSE Done([status |-> 200, ok |-> TRUE, sourcePath |-> relPath, newPath |-> destRelPath],
                copied.disk, <<Call("cpSync", destAbs)>>)

(* ------------------------------------------------------------------ *)
(* The server: one request at a time, each handler run to its return    *)
(* ------------------------------------------------------------------ *)

\* The workspace at start: two plain files, nested and sibling directories,
\* a directory with a dot in its name, the database file and one metadata
\* sidecar.
InitialDisk ==
  [q \in {"/", "/ws", "/ws/a.txt", "/ws/b.txt", "/ws/foo", "/ws/foo/bar",
          "/ws/foo/.object.yaml", "/ws/foobar", "/ws/v1.2",
          "/ws/workspace.duckdb"} |->
     CASE q = "/ws/a.txt" -> File("A")
       [] q = "/ws/b.txt" -> File("B")
       [] q = "/ws/foo/.object.yaml" -> File("Y")
       [] q = "/ws/workspace.duckdb" -> File("DB")
       [] OTHER -> Dir]

\* Relative paths clients send: plain names, spellings the resolver
\* normalizes, traversal attempts, absolute and backslash forms, names of
\* entries that do not exist, a path through a file, the empty string.
Paths ==
  {"a.txt", "foo", "foo/", "foo/bar", "v1.2", "cache.tmp",
   "workspace.duckdb", "workspace.duckdb/", "foo/.object.yaml",
   ".", "../../etc/passwd", "a/../../b", "/etc/passwd", "foo\\bar",
   "a/b/c", "foo/new", "a.txt/x", "nope", ""}

\* The paths sent as the directory to create or the file to write.
NewPaths ==
  {"a.txt", "foo", "foo/", "workspace.duckdb", "foo/.object.yaml",
   ".", "../../etc/passwd", "a/../../b", "/etc/passwd", "foo\\bar",
   "a/b/c", "foo/new", "cache.tmp", "a.txt/x", ""}

\* The paths sent as the entry to rename or move.
Sources ==
  {"a.txt", "foo", "foo/", "foo/bar", "foo/bar/.", "cache.tmp",
   "workspace.duckdb", "workspace.duckdb/",
   ".", "../../etc/passwd", "a/../../b", "nope"}

\* The paths sent as the entry to copy.
Originals ==
  {"a.txt", "foo", "v1.2", "workspace.duckdb", ".", "../../etc/passwd", "a/../../b", "nope"}

NewNames == {"a.txt", "b.txt", "c.txt", "..", ".", "x/y", " ", ""}

DestinationDirs == {".", "foo", "foo/bar", "foobar", "cache.tmp", "a.txt", "nope", "../x"}

DestinationPaths == {"c.txt", "b.txt", "foo/sub", "../x"}

DeleteBodies == {BadJson} \cup {[path |-> p] : p \in Paths}

WriteBodies ==
  {BadJson, [path |-> "c.txt"]} \cup {[path |-> p, content |-> "X"] : p \in NewPaths}

MkdirBodies == {BadJson} \cup {[path |-> p] : p \in NewPaths}

RenameBodies ==
  {BadJson, [path |-> "a.txt"]}
    \cup {[path |-> p, newName |-> m] : p \in Sources, m \in NewNames}

MoveBodies ==
  {BadJson, [sourcePath |-> "a.txt"]}
    \cup {[sourcePath |-> p, destinationDir |-> d] : p \in Sources, d \in DestinationDirs}

CopyBodies ==
  {BadJson, [destinationPath |-> "c.txt"]} \cup {[path |-> p] : p \in Originals}
    \cup {[path |-> p, destinationPath |-> d] : p \in Originals, d \in DestinationPaths}

NoReq == [op |-> "none"]

NoResp == [status |-> 0]

\* No watch request has been made, no hook is mounted, the agent has done
\* nothing.
NoWatch == <<>>

NoHook == [mounted |-> FALSE]

NoAgent == [writes |-> 0, unseen |-> FALSE]

\* No request is waiting for its body.
Idle == [stage |-> "idle"]

NoInflight == [i \in 1..MaxInflight |-> Idle]

Init ==
  /\ fs = InitialDisk
  /\ req = NoReq
  /\ resp = NoResp
  /\ io = <<>>
  /\ prev = InitialDisk
  /\ n = 0
  /\ watch = NoWatch
  /\ hook = NoHook
  /\ agent = NoAgent
  /\ inflight = NoInflight

\* The handler of one request runs from its first line to its return.
Handle(op, body, out) ==
  /\ req.op = "none"
  /\ n < MaxOps
  /\ fs' = out.disk
  /\ req' = [op |-> op, body |-> body]
  /\ resp' = out.resp
  /\ io' = out.io
  /\ prev' = fs
  /\ n' = n + 1
  /\ UNCHANGED inflight
  /\ UNCHANGED liveVars

Delete == \E body \in DeleteBodies : Handle("delete", body, DELETE(body, fs))

Write == \E body \in WriteBodies : Handle("write", body, WritePOST(body, fs))

Mkdir == \E body \in MkdirBodies : Handle("mkdir", body, MkdirPOST(body, fs))

Rename == \E body \in RenameBodies : Handle("rename", body, RenamePOST(body, fs))

Move == \E body \in MoveBodies : Handle("move", body, MovePOST(body, fs))

Copy == \E body \in CopyBodies : Handle("copy", body, CopyPOST(body, fs))

\* The Response goes out and the request is over.
Reply ==
  /\ req.op # "none"
  /\ req' = NoReq
  /\ resp' = NoResp
  /\ io' = <<>>
  /\ prev' = fs
  /\ UNCHANGED <<fs, n, inflight>>
  /\ UNCHANGED liveVars

Next == Delete \/ Write \/ Mkdir \/ Rename \/ Move \/ Copy \/ Reply

Spec == Init /\ [][Next]_vars

(* ------------------------------------------------------------------ *)
(* Vocabulary of the properties                                         *)
(* ------------------------------------------------------------------ *)

Handled == req.op # "none"

Succeeded == Handled /\ resp.status = 200

Rejected == Handled /\ "error" \in DOMAIN resp

Untouched == fs = prev /\ io = <<>>

\* The relative paths the handler of the request resolves, as the client sent them.
PathArgs ==
  CASE req.op \in {"delete", "write", "mkdir", "rename"} -> {Field(req.body, "path")}
    [] req.op = "move" -> {Field(req.body, "sourcePath"), Field(req.body, "destinationDir")}
    [] req.op = "copy" -> {Field(req.body, "path"), Field(req.body, "destinationPath")}
    [] OTHER -> {}

HasDotDot(p) == \E i \in 1..Len(Split(p)) : Split(p)[i] = ".."

\* abs lies strictly below the workspace root, compared segment by segment.
BelowRoot(abs) ==
  LET segs == Split(abs)
      root == Split(Root)
  IN  Len(segs) > Len(root) /\ SubSeq(segs, 1, Len(root)) = root

\* d is s or lies below s, compared segment by segment.
WithinDir(d, s) ==
  LET ds == Split(d)
      ss == Split(s)
  IN  Len(ss) <= Len(ds) /\ SubSeq(ds, 1, Len(ss)) = ss

\* The entry a relative path names on a disk ("" when it names none).
Named(p, disk) ==
  IF p = "" \/ HasDotDot(p) \/ StartsWith(p, "/") \/ Includes(p, "\\") THEN ""
  ELSE LET abs == Resolve(Root, p)
       IN  IF abs \in DOMAIN disk THEN abs ELSE ""

Child(dir, name) == IF dir = "/" THEN dir \o name ELSE dir \o "/" \o name

(* ------------------------------------------------------------------ *)
(* C1                                                                   *)
(* ------------------------------------------------------------------ *)

\* C1: a relative path with a ".." segment, or one that resolves outside the
\* workspace root, is rejected by the resolver in both modes, and the request
\* that carried it ends in a failure with the disk untouched and no node:fs
\* call made.
C1_NoTraversal ==
  Handled =>
    \A p \in PathArgs :
      (p # "" /\ (HasDotDot(p) \/ ~WithinDir(Resolve(Root, p), Root))) =>
        /\ safeResolvePath(p, prev) = Null
        /\ safeResolveNewPath(p, prev) = Null
        /\ Rejected
        /\ Untouched

C1_Witness ==
  /\ req.op = "copy"
  /\ Field(req.body, "path") = "a.txt"
  /\ Field(req.body, "destinationPath") = "../x"
  /\ resp.status = 400

(* ------------------------------------------------------------------ *)
(* C2                                                                   *)
(* ------------------------------------------------------------------ *)

\* C2: every path Delete, Rename, Move, Copy or Mkdir hands to node:fs as the
\* entry to remove, rename to, copy to or create lies strictly below the
\* workspace root.
C2_TargetsBelowRoot ==
  (Handled /\ req.op \in {"delete", "rename", "move", "copy", "mkdir"}) =>
    \A i \in 1..Len(io) : BelowRoot(io[i].target)

(* ------------------------------------------------------------------ *)
(* C3                                                                   *)
(* ------------------------------------------------------------------ *)

\* The path of the entry a Delete, Rename or Move request acts on.
SourceArg ==
  IF req.op = "move" THEN Field(req.body, "sourcePath") ELSE Field(req.body, "path")

\* Every field the handler requires is present.
WellFormed ==
  CASE req.op = "rename" -> Field(req.body, "path") # "" /\ Field(req.body, "newName") # ""
    [] req.op = "move" ->
         Field(req.body, "sourcePath") # "" /\ Field(req.body, "destinationDir") # ""
    [] OTHER -> Field(req.body, "path") # ""

\* C3: a Delete, Rename or Move whose path, however spelled, names an existing
\* entry with a system-file base name fails with 403 and leaves the disk as
\* it was.
C3_SystemFileImmutable ==
  (/\ Handled
   /\ req.op \in {"delete", "rename", "move"}
   /\ WellFormed
   /\ Named(SourceArg, prev) # ""
   /\ isSystemFile(Basename(Named(SourceArg, prev)))) =>
    resp.status = 403 /\ Untouched

(* ------------------------------------------------------------------ *)
(* C4                                                                   *)
(* ------------------------------------------------------------------ *)

\* The system files of the workspace at start.
InitialSystemFiles ==
  {q \in DOMAIN InitialDisk :
     BelowRoot(q) /\ ~InitialDisk[q].dir /\ isSystemFile(Basename(q))}

\* C4: whatever requests were handled, every system file of the initial
\* workspace is still at its path with its content.
C4_SystemFilesKept ==
  \A q \in InitialSystemFiles : q \in DOMAIN fs /\ fs[q] = InitialDisk[q]

(* ------------------------------------------------------------------ *)
(* C5                                                                   *)
(* ------------------------------------------------------------------ *)

\* C5: renaming an existing entry to the base name it already has does not
\* end in 409 Conflict, while renaming it to the name of another existing
\* entry of its directory ends in 409 and changes nothing.
C5_RenameBoundary ==
  (/\ Handled
   /\ req.op = "rename"
   /\ Named(Field(req.body, "path"), prev) # ""
   /\ ~isSystemFile(Field(req.body, "path"))
   /\ ~InvalidName(Field(req.body, "newName"))) =>
    LET src == Named(Field(req.body, "path"), prev)
    IN  IF Basename(src) = req.body.newName
          THEN resp.status # 409
          ELSE Child(Dirname(src), req.body.newName) \in DOMAIN prev =>
                 (resp.status = 409 /\ Untouched)

(* ------------------------------------------------------------------ *)
(* C6                                                                   *)
(* ------------------------------------------------------------------ *)

SelfContainment == Failure(400, "Cannot move a folder into itself")

\* A Move request whose source and destination both name existing directories.
MoveOfDirs ==
  /\ Handled
  /\ req.op = "move"
  /\ Named(Field(req.body, "sourcePath"), prev) # ""
  /\ Named(Field(req.body, "destinationDir"), prev) # ""
  /\ prev[Named(Field(req.body, "sourcePath"), prev)].dir
  /\ prev[Named(Field(req.body, "destinationDir"), prev)].dir

MoveSource == Named(Field(req.body, "sourcePath"), prev)

MoveDest == Named(Field(req.body, "destinationDir"), prev)

\* C6 as stated: a Move of a directory into itself or a descendant fails with
\* SelfContainment and changes nothing; a Move into any other directory is not
\* rejected for self-containment.
C6_AsStated ==
  MoveOfDirs =>
    IF WithinDir(MoveDest, MoveSource)
      THEN resp = SelfContainment /\ Untouched
      ELSE resp # SelfContainment

\* C6, amended: a Move of a directory into itself or a descendant fails and
\* changes nothing, with "Cannot move system file" (403) when isSystemFile
\* holds of sourcePath as sent and with SelfContainment otherwise; a Move
\* into any other directory is not rejected for self-containment, and such a
\* Move succeeds when the source is not a system file and the destination
\* has no entry of the source's name.
C6_MoveSelfContainment ==
  MoveOfDirs =>
    IF WithinDir(MoveDest, MoveSource)
      THEN /\ Untouched
           /\ resp = IF isSystemFile(Field(req.body, "sourcePath"))
                       THEN Failure(403, "Cannot move system file")
                       ELSE SelfContainment
      ELSE /\ resp # SelfContainment
           /\ (/\ ~isSystemFile(Field(req.body, "sourcePath"))
               /\ Child(MoveDest, Basename(MoveSource)) \notin DOMAIN prev) =>
                (/\ resp.status = 200
                 /\ Child(MoveDest, Basename(MoveSource)) \in DOMAIN fs)

\* foo is moved into its sibling foobar.
C6_Witness ==
  /\ req.op = "move"
  /\ Field(req.body, "sourcePath") = "foo"
  /\ Field(req.body, "destinationDir") = "foobar"
  /\ resp.status = 200
  /\ "/ws/foobar/foo/bar" \in DOMAIN fs

(* ------------------------------------------------------------------ *)
(* C7                                                                   *)
(* ------------------------------------------------------------------ *)

\* The name the copy of an entry is to get: " copy" before the extension of
\* a file, after the whole name of a directory.
CopyNameOf(name, isDir) ==
  IF isDir \/ LastDot(name) <= 1 THEN name \o " copy"
  ELSE SubSeq(name, 1, LastDot(name) - 1) \o " copy" \o Slice(name, LastDot(name))

\* C7: a Copy without destinationPath that succeeds puts the copy beside the
\* source, under the name CopyNameOf gives for a file or for a directory.
C7_CopyAutoNaming ==
  (/\ Handled
   /\ req.op = "copy"
   /\ Field(req.body, "destinationPath") = ""
   /\ resp.status = 200) =>
    LET src == Named(Field(req.body, "path"), prev)
    IN  Resolve(Root, resp.newPath)
          = Child(Dirname(src), CopyNameOf(Basename(src), prev[src].dir))

(* ------------------------------------------------------------------ *)
(* C8                                                                   *)
(* ------------------------------------------------------------------ *)

\* The directories from the workspace root down to abs, abs excluded.
DirsAbove(abs) == {q \in Ancestors(abs) : WithinDir(q, Root)}

\* C8: a Mkdir whose leaf is absent and whose existing ancestors are all
\* directories succeeds, and afterwards the leaf and every ancestor exist as
\* directories and nothing else has changed; a Mkdir whose leaf exists fails
\* with 409 and changes nothing.
C8_MkdirLeaf ==
  (/\ Handled
   /\ req.op = "mkdir"
   /\ Field(req.body, "path") # ""
   /\ ~HasDotDot(Field(req.body, "path"))
   /\ BelowRoot(Resolve(Root, Field(req.body, "path")))
   /\ ~Includes(Field(req.body, "path"), "\\")) =>
    LET leaf == Resolve(Root, Field(req.body, "path"))
    IN  IF leaf \in DOMAIN prev
          THEN resp = Failure(409, "Directory already exists") /\ Untouched
        ELSE IF \A q \in DirsAbove(leaf) : q \in DOMAIN prev => prev[q].dir
          THEN /\ resp.status = 200
               /\ \A q \in DirsAbove(leaf) \cup {leaf} : q \in DOMAIN fs /\ fs[q].dir
               /\ \A q \in DOMAIN prev : q \in DOMAIN fs /\ fs[q] = prev[q]
               /\ DOMAIN fs \subseteq DOMAIN prev \cup DirsAbove(leaf) \cup {leaf}
        ELSE Rejected

\* The second Mkdir of a/b/c, after the first one made a, a/b and a/b/c.
C8_Witness ==
  /\ req.op = "mkdir"
  /\ Field(req.body, "path") = "a/b/c"
  /\ n = 2
  /\ resp.status = 409
  /\ "/ws/a" \notin DOMAIN InitialDisk
  /\ {"/ws/a", "/ws/a/b", "/ws/a/b/c"} \subseteq DOMAIN fs

(* ------------------------------------------------------------------ *)
(* C9                                                                   *)
(* ------------------------------------------------------------------ *)

\* The disk after is the disk before with the subtree at old carried to new,
\* entry for entry, and nothing else changed.
Relocated(before, after, old, new) ==
  /\ old \notin DOMAIN after
  /\ \A q \in DOMAIN before :
       IF WithinDir(q, old)
         THEN /\ (new \o Slice(q, Len(old) + 1)) \in DOMAIN after
              /\ after[new \o Slice(q, Len(old) + 1)] = before[q]
         ELSE q \in DOMAIN after /\ after[q] = before[q]
  /\ Cardinality(DOMAIN after) = Cardinality(DOMAIN before)

\* C9: after a successful Delete the entry and everything below it are gone;
\* after a successful Rename the entry is in the same directory under the new
\* name; after a successful Move it is in the destination directory under its
\* own name; contents are kept and no other entry changes.
C9_RoundTrip ==
  Succeeded =>
    CASE req.op = "delete" ->
           LET old == Named(req.body.path, prev)
           IN  /\ old # ""
               /\ \A q \in DOMAIN fs : ~WithinDir(q, old)
               /\ \A q \in DOMAIN prev :
                    ~WithinDir(q, old) => (q \in DOMAIN fs /\ fs[q] = prev[q])
      [] req.op = "rename" ->
           LET old == Named(req.body.path, prev)
           IN  /\ old # ""
               /\ Relocated(prev, fs, old, Child(Dirname(old), req.body.newName))
      [] req.op = "move" ->
           /\ MoveSource # ""
           /\ MoveDest # ""
           /\ Relocated(prev, fs, MoveSource, Child(MoveDest, Basename(MoveSource)))
      [] OTHER -> TRUE

\* A directory with an entry below it has been renamed.
C9_Witness ==
  /\ req.op = "rename"
  /\ Field(req.body, "path") = "foo"
  /\ Field(req.body, "newName") = "c.txt"
  /\ resp.status = 200
  /\ "/ws/c.txt/.object.yaml" \in DOMAIN fs

(* ------------------------------------------------------------------ *)
(* C10                                                                  *)
(* ------------------------------------------------------------------ *)

\* C10: no field of a response of Delete, Rename, Move, Copy or Mkdir holds
\* the absolute path of the workspace.
C10_NoAbsolutePath ==
  (Handled /\ req.op \in {"delete", "rename", "move", "copy", "mkdir"}) =>
    \A f \in DOMAIN resp \cap {"error", "path", "oldPath", "newPath", "sourcePath"} :
      ~Includes(resp[f], Root)

(* ------------------------------------------------------------------ *)
(* Timers (setTimeout, setInterval) on a clock of 100 ms ticks          *)
(* ------------------------------------------------------------------ *)

\* The debounce window of sendEvent and the heartbeat period of the watch
\* route.
DebounceMs == 200

HeartbeatMs == 30000

\* The debounce window of the hook's debouncedRefetch.
RefetchMs == 300

\* Length of one clock tick in milliseconds: the largest unit of which every
\* delay of the route and of the hook is a multiple.
TickMs == DebounceMs \div 2


Ticks(ms) == ms \div TickMs

\* A timer handle that is not armed: never set, cleared, or already fired.
NoTimer == [armed |-> FALSE]

\* setTimeout(callback, ms) / setInterval(callback, ms): due in ms.
Timer(ms) == [armed |-> TRUE, due |-> Ticks(ms)]

\* The callback of the timer is to run now.
Expired(t) == t.armed /\ t.due = 0

\* One tick later.
Elapse(t) == IF t.armed THEN [t EXCEPT !.due = @ - 1] ELSE t

(* ------------------------------------------------------------------ *)
(* GET /api/workspace/watch: one event stream per request               *)
(* ------------------------------------------------------------------ *)

\* Watch requests served in one behaviour of the watch route taken alone.
MaxRequests == 1

\* Writes the agent makes in one behaviour.
MaxWrites == 3

\* The chunks the route enqueues.
Connected == [event |-> "connected"]

Change(type, path) == [event |-> "change", type |-> type, path |-> path]

Heartbeat == [event |-> "heartbeat"]

WatchError == [event |-> "error", error |-> "File watching unavailable"]

\* controller.enqueue(chunk).  The log keeps every named event in order; a
\* run of heartbeat comments is kept as one.
enqueue(st, chunk) ==
  IF chunk = Heartbeat /\ st.sent[Len(st.sent)] = Heartbeat
    THEN st
    ELSE [st EXCEPT !.sent = Append(@, chunk)]

\* start(controller) up to its await: `connected` is enqueued, the locals
\* are declared, the heartbeat interval is set, and the import is pending.
\* cancel is still the stream's own; aborted tells that the response was
\* aborted; raw holds the events chokidar has not yet handed to the
\* listener.  since, burst, out and lag observe the stream: ticks since the
\* listener last ran (up to the window), listener runs of the current
\* burst, `change` events enqueued since that burst began, the value of
\* since when the last `change` was enqueued, whether the listener has run
\* after the installed cancel, and the raw event the listener last ran for
\* on the open stream.
Started ==
  [start |-> "importing",
   sent |-> <<Connected>>,
   watcher |-> "null",
   closed |-> FALSE,
   debounceTimer |-> NoTimer,
   heartbeat |-> Timer(HeartbeatMs),
   cancel |-> "original",
   aborted |-> FALSE,
   raw |-> <<>>,
   since |-> Ticks(DebounceMs),
   burst |-> 0,
   out |-> 0,
   lag |-> 0,
   late |-> FALSE,
   last |-> [type |-> "", path |-> ""]]

\* The variant of sendEvent that leaves a pending timer in place.
sendEvent_KeepPending(st, type, filePath) ==
  IF st.closed \/ st.debounceTimer.armed
    THEN st
    ELSE [st EXCEPT !.debounceTimer =
            [armed |-> TRUE, due |-> Ticks(DebounceMs), type |-> type, path |-> filePath]]

\* The variant of sendEvent that restarts the timer and keeps the event a
\* pending timer carries.
sendEvent_FirstPayload(st, type, filePath) ==
  IF st.closed
    THEN st
    ELSE [st EXCEPT !.debounceTimer =
            [armed |-> TRUE, due |-> Ticks(DebounceMs),
             type |-> IF @.armed THEN @.type ELSE type,
             path |-> IF @.armed THEN @.path ELSE filePath]]

\* sendEvent(type, filePath): clear the pending timer and set a new one that
\* carries this event.
sendEvent(st, type, filePath) ==
  IF st.closed
    THEN st
    ELSE [st EXCEPT !.debounceTimer =
            [armed |-> TRUE, due |-> Ticks(DebounceMs), type |-> type, path |-> filePath]]

\* The path the listener passes on: relative to the workspace root.
Relative(filePath) ==
  IF StartsWith(filePath, Root) THEN Slice(filePath, Len(Root) + 2) ELSE filePath

\* The paths chokidar is told to ignore.
ignored(filePath) ==
  \/ "node_modules" \in {Split(filePath)[i] : i \in 1..Len(Split(filePath))}
  \/ EndsWith(filePath, ".duckdb.wal")
  \/ EndsWith(filePath, ".duckdb.tmp")

\* The cancel that sets the flag and closes the watcher, and clears no timer.
cancel_FlagOnly(st) ==
  [st EXCEPT !.closed = TRUE,
             !.watcher = IF @ = "watching" THEN "closing" ELSE @]

\* The stream.cancel the route installs, up to its await: the flag is set,
\* both timers are cleared and watcher.close() is called.
cancel(st) ==
  [st EXCEPT !.closed = TRUE,
             !.heartbeat = NoTimer,
             !.debounceTimer = NoTimer,
             !.watcher = IF @ = "watching" THEN "closing" ELSE @]

\* The response is aborted: the runtime calls stream.cancel, whichever
\* function that is at this moment.
aborted(st) ==
  IF st.aborted
    THEN st
    ELSE [(IF st.cancel = "installed" THEN cancel(st) ELSE st) EXCEPT !.aborted = TRUE]

\* A watch request arrives: the stream is constructed, start() runs to its
\* await and the Response is returned.
Open ==
  /\ Len(watch) < MaxRequests
  /\ Root \in DOMAIN fs
  /\ watch' = Append(watch, Started)
  /\ UNCHANGED <<fs, hook, agent>>
  /\ UNCHANGED routeVars

\* import("chokidar") resolves: the watcher is created, the listener is
\* registered and stream.cancel is replaced.
ImportResolves(s) ==
  /\ watch[s].start = "importing"
  /\ watch' = [watch EXCEPT ![s] = [@ EXCEPT !.start = "returned",
                                            !.watcher = "watching",
                                            !.cancel = "installed"]]
  /\ UNCHANGED <<fs, hook, agent>>
  /\ UNCHANGED routeVars

\* import("chokidar") rejects: the catch block enqueues `error`, then
\* stream.cancel is replaced.  On an aborted stream enqueue throws out of
\* start().
ImportRejects(s) ==
  /\ watch[s].start = "importing"
  /\ watch' = [watch EXCEPT ![s] =
                 IF @.aborted
                   THEN [@ EXCEPT !.start = "threw"]
                   ELSE [enqueue(@, WatchError) EXCEPT !.start = "returned",
                                                        !.cancel = "installed"]]
  /\ UNCHANGED <<fs, hook, agent>>
  /\ UNCHANGED routeVars

\* The listener of watcher.on("all") runs for the next raw event.
OnAll(s) ==
  /\ watch[s].watcher \in {"watching", "closing"}
  /\ watch[s].raw # <<>>
  /\ LET st == watch[s]
         ev == Head(st.raw)
         inBurst == st.since < Ticks(DebounceMs)
         heard == IF st.closed
                    THEN [st EXCEPT !.raw = Tail(@), !.late = TRUE]
                    ELSE [st EXCEPT !.raw = Tail(@),
                                    !.last = ev,
                                    !.since = 0,
                                    !.burst = IF inBurst THEN @ + 1 ELSE 1,
                                    !.out = IF inBurst THEN @ ELSE 0]
     IN  watch' = [watch EXCEPT ![s] = sendEvent(heard, ev.type, Relative(ev.path))]
  /\ UNCHANGED <<fs, hook, agent>>
  /\ UNCHANGED routeVars

\* watcher.close() completes: the events it had not handed over are gone.
WatcherCloses(s) ==
  /\ watch[s].watcher = "closing"
  /\ watch' = [watch EXCEPT ![s] = [@ EXCEPT !.watcher = "closed", !.raw = <<>>]]
  /\ UNCHANGED <<fs, hook, agent>>
  /\ UNCHANGED routeVars

\* The debounce timeout set by sendEvent fires.
DebounceFires(s) ==
  /\ Expired(watch[s].debounceTimer)
  /\ LET st == watch[s]
         t == st.debounceTimer
         fired == [st EXCEPT !.debounceTimer = NoTimer]
     IN  watch' = [watch EXCEPT ![s] =
                     IF st.closed \/ st.aborted
                       THEN fired
                       ELSE [enqueue(fired, Change(t.type, t.path))
                               EXCEPT !.out = @ + 1, !.lag = st.since]]
  /\ UNCHANGED <<fs, hook, agent>>
  /\ UNCHANGED routeVars

\* The heartbeat interval fires.
HeartbeatFires(s) ==
  /\ Expired(watch[s].heartbeat)
  /\ LET st == watch[s]
         again == [st EXCEPT !.heartbeat = Timer(HeartbeatMs)]
     IN  watch' = [watch EXCEPT ![s] =
                     IF st.closed \/ st.aborted THEN again ELSE enqueue(again, Heartbeat)]
  /\ UNCHANGED <<fs, hook, agent>>
  /\ UNCHANGED routeVars

\* The client goes away.
Abort(s) ==
  /\ ~watch[s].aborted
  /\ watch' = [watch EXCEPT ![s] = aborted(@)]
  /\ UNCHANGED <<fs, hook, agent>>
  /\ UNCHANGED routeVars

\* The files the agent writes.
AgentPaths == {"/ws/notes.md", "/ws/workspace.duckdb.wal"}

\* The agent writes a file, bypassing the routes; chokidar queues an event
\* for every watcher that is watching, unless the path is ignored.
AgentWrites(p) ==
  /\ agent.writes < MaxWrites
  /\ fs' = writeFileSync(fs, p, "Z").disk
  /\ agent' = [writes |-> agent.writes + 1, unseen |-> agent.unseen \/ ~ignored(p)]
  /\ LET ev == [type |-> IF existsSync(fs, p) THEN "change" ELSE "add", path |-> p]
     IN  watch' = [s \in DOMAIN watch |->
                     IF watch[s].watcher = "watching" /\ ~ignored(p)
                       THEN [watch[s] EXCEPT !.raw = Append(@, ev)]
                       ELSE watch[s]]
  /\ UNCHANGED hook
  /\ UNCHANGED routeVars

\* All timers of the streams and of the hook.
StreamTimers == UNION {{watch[s].debounceTimer, watch[s].heartbeat} : s \in DOMAIN watch}

HookTimers ==
  IF hook.mounted
    THEN {hook.pollInterval, hook.debounceTimer}
           \cup {hook.timeouts[i] : i \in DOMAIN hook.timeouts}
    ELSE {}

\* 100 ms pass: possible when no callback is due.
Tick ==
  /\ \E t \in StreamTimers \cup HookTimers : t.armed
  /\ \A t \in StreamTimers \cup HookTimers : ~Expired(t)
  /\ watch' = [s \in DOMAIN watch |->
                 [watch[s] EXCEPT !.debounceTimer = Elapse(@),
                                  !.heartbeat = Elapse(@),
                                  !.since = IF @ < Ticks(DebounceMs) THEN @ + 1 ELSE @]]
  /\ hook' = IF hook.mounted
               THEN [hook EXCEPT !.pollInterval = Elapse(@),
                                 !.debounceTimer = Elapse(@),
                                 !.timeouts = [i \in DOMAIN @ |-> Elapse(@[i])],
                                 !.since = IF @ < Ticks(RefetchMs) THEN @ + 1 ELSE @,
                                 !.idle = @ + 1]
               ELSE hook
  /\ UNCHANGED <<fs, agent>>
  /\ UNCHANGED routeVars

WatchNext ==
  \/ Open
  \/ \E p \in AgentPaths : AgentWrites(p)
  \/ Tick
  \/ \E s \in DOMAIN watch : ImportResolves(s)
  \/ \E s \in DOMAIN watch : ImportRejects(s)
  \/ \E s \in DOMAIN watch : OnAll(s)
  \/ \E s \in DOMAIN watch : DebounceFires(s)
  \/ \E s \in DOMAIN watch : HeartbeatFires(s)
  \/ \E s \in DOMAIN watch : Abort(s)
  \/ \E s \in DOMAIN watch : WatcherCloses(s)

WatchSpec == Init /\ [][WatchNext]_vars

(* ------------------------------------------------------------------ *)
(* Vocabulary of the watch stream properties                            *)
(* ------------------------------------------------------------------ *)

\* The stream is open: neither aborted by the client nor closed.
Flowing(st) == ~st.aborted /\ ~st.closed

\* Number of chunks equal to e that the stream has enqueued.
Count(st, e) == Cardinality({i \in 1..Len(st.sent) : st.sent[i] = e})

\* No resource of the request is held any more.
Released(st) ==
  /\ st.watcher # "watching"
  /\ ~st.heartbeat.armed
  /\ ~st.debounceTimer.armed

(* ------------------------------------------------------------------ *)
(* C11  Debounce coalescing on the server                               *)
(* ------------------------------------------------------------------ *)

\* C11: on an open stream, a burst of raw events each less than 200 ms after
\* the previous one has produced no `change` event while fewer than 200 ms
\* have passed since its last raw event, and exactly one once the timer has
\* run, enqueued 200 ms after that last raw event.
C11_DebounceCoalescing ==
  \A s \in DOMAIN watch :
    LET st == watch[s]
    IN  (Flowing(st) /\ st.burst >= 1) =>
          /\ st.since < Ticks(DebounceMs) => st.out = 0
          /\ st.out <= 1
          /\ st.out = 1 => st.lag * TickMs = DebounceMs
          /\ (st.since = Ticks(DebounceMs) /\ ~st.debounceTimer.armed) => st.out = 1

\* Three raw events, each within 200 ms of the previous, have been answered
\* by one `change` event.
C11_Witness ==
  \E s \in DOMAIN watch :
    /\ Flowing(watch[s])
    /\ watch[s].burst = 3
    /\ watch[s].out = 1
    /\ Len(watch[s].sent) = 2

(* ------------------------------------------------------------------ *)
(* C12  The `error` event is terminal                                   *)
(* ------------------------------------------------------------------ *)

\* C12: a stream on which the watch could not be established has enqueued
\* exactly one `error` event, nothing after it, holds no armed timer and no
\* watcher.
C12_ErrorIsTerminal ==
  \A s \in DOMAIN watch :
    LET st == watch[s]
    IN  (st.start = "returned" /\ st.watcher = "null" /\ ~st.aborted) =>
          /\ Count(st, WatchError) = 1
          /\ st.sent[Len(st.sent)] = WatchError
          /\ ~st.heartbeat.armed
          /\ ~st.debounceTimer.armed

(* ------------------------------------------------------------------ *)
(* C13  Every resource of a watch request is released when it ends      *)
(* ------------------------------------------------------------------ *)

\* C13: once the response has been aborted and start() has run to its end,
\* the request holds no watcher, no heartbeat interval and no debounce timer.
C13_ReleasedOnEnd ==
  \A s \in DOMAIN watch :
    (watch[s].aborted /\ watch[s].start # "importing") => Released(watch[s])

(* ------------------------------------------------------------------ *)
(* useWorkspaceWatcher: the hook of one browser tab                     *)
(* ------------------------------------------------------------------ *)

\* Connection failures (network errors and unavailable watches) in one
\* behaviour.
MaxFaults == 1

\* Writes of the agent in one behaviour of the whole pipeline.
MaxEdits == 1

\* The delays of the hook: poll period, first and longest reconnect delay.
PollMs == 5000

FirstRetryMs == 1000

MaxRetryMs == 30000

Min(a, b) == IF a < b THEN a ELSE b

\* The named events of a stream, in order: what the browser dispatches
\* (heartbeat comments are not dispatched).
Events(st) == SelectSeq(st.sent, LAMBDA c : c # Heartbeat)

\* fetchTree() up to its first await: the request for the tree goes out.
\* pending lists the requests that are not answered yet, in the order in
\* which they were started; late marks one that a request started after it
\* has overtaken.
fetchTree(h) ==
  [h EXCEPT !.fetched = TRUE, !.idle = 0, !.pending = Append(@, [late |-> FALSE])]

\* The requests of h without the j-th, which has overtaken those before it.
Answered(h, j) ==
  [i \in 1..(Len(h.pending) - 1) |->
     IF i < j THEN [late |-> TRUE] ELSE h.pending[i + 1]]

\* fetchTree() after its awaits, the response of the j-th pending request
\* being there, written without the test of mountedRef.
onTree_Unguarded(h, j) ==
  [h EXCEPT !.pending = Answered(h, j),
            !.tree = [loaded |-> TRUE, outdated |-> h.pending[j].late],
            !.loading = FALSE]

\* fetchTree() after its awaits, the response of the j-th pending request
\* being there: setTree, setExists and setLoading while mountedRef is set.
\* outdated observes the tree: it is the response of a request that another
\* had overtaken.
onTree(h, j) ==
  IF h.mountedRef
    THEN [h EXCEPT !.pending = Answered(h, j),
                   !.tree = [loaded |-> TRUE, outdated |-> h.pending[j].late],
                   !.loading = FALSE]
    ELSE [h EXCEPT !.pending = Answered(h, j)]

\* fetchTree() after a fetch that threw: the catch block.
onTreeError(h, j) ==
  IF h.mountedRef
    THEN [h EXCEPT !.pending = Answered(h, j), !.loading = FALSE]
    ELSE [h EXCEPT !.pending = Answered(h, j)]

\* debouncedRefetch() that leaves a pending timer alone.
debouncedRefetch_KeepPending(h) ==
  IF h.debounceTimer.armed THEN h ELSE [h EXCEPT !.debounceTimer = Timer(RefetchMs)]

\* debouncedRefetch(): clear the pending timer and set a new one.
debouncedRefetch(h) == [h EXCEPT !.debounceTimer = Timer(RefetchMs)]

\* startPolling()
startPolling(h) ==
  IF h.pollInterval.armed \/ ~h.alive
    THEN h
    ELSE [h EXCEPT !.pollInterval = Timer(PollMs)]

\* scheduleReconnect() doubling the delay without the cap.
scheduleReconnect_Uncapped(h) ==
  IF ~h.alive
    THEN h
    ELSE LET p == startPolling(h)
             delay == p.retryDelayRef
         IN  [p EXCEPT !.retryDelayRef = delay * 2,
                       !.timeouts =
                         Append([i \in DOMAIN @ |-> [@[i] EXCEPT !.held = FALSE]],
                                [armed |-> TRUE, due |-> Ticks(delay),
                                 delay |-> delay, held |-> TRUE]),
                       !.scheduled = Append(@, delay)]

\* scheduleReconnect(): the new timeout is the one reconnectTimeout holds;
\* a timeout set earlier keeps running.
scheduleReconnect(h) ==
  IF ~h.alive
    THEN h
    ELSE LET p == startPolling(h)
             delay == p.retryDelayRef
         IN  [p EXCEPT !.retryDelayRef = Min(delay * 2, MaxRetryMs),
                       !.timeouts =
                         Append([i \in DOMAIN @ |-> [@[i] EXCEPT !.held = FALSE]],
                                [armed |-> TRUE, due |-> Ticks(delay),
                                 delay |-> delay, held |-> TRUE]),
                       !.scheduled = Append(@, delay)]

\* connectSSE(): a new EventSource, whose request opens a watch stream.
connectSSE(h) ==
  IF ~h.alive
    THEN h
    ELSE [h EXCEPT !.sources = Append(@, [state |-> "connecting", acked |-> FALSE, read |-> 0]),
                   !.eventSource = Len(h.sources) + 1]

\* The listener of `connected`.
onConnected(h) ==
  [h EXCEPT !.retryDelayRef = FirstRetryMs, !.pollInterval = NoTimer]

\* The body of the `error` listener and of the onerror handler alike.
onError(h) ==
  scheduleReconnect(
    IF h.eventSource = 0
      THEN h
      ELSE [h EXCEPT !.sources[h.eventSource].state = "closed", !.eventSource = 0])

\* An `error` event is dispatched to the EventSource: the listener added
\* with addEventListener runs, then the onerror handler.
dispatchError(h) == onError(onError(h))

\* The variant in which one `error` event runs one handler.
dispatchError_Once(h) == onError(h)

\* The cleanups of the two effects.
cleanup(h) ==
  [h EXCEPT !.mountedRef = FALSE,
            !.alive = FALSE,
            !.sources = IF h.eventSource = 0
                          THEN @
                          ELSE [@ EXCEPT ![h.eventSource].state = "closed"],
            !.pollInterval = NoTimer,
            !.timeouts = SelectSeq(@, LAMBDA t : ~t.held),
            !.debounceTimer = NoTimer]

\* The hook after its two effects have run: the initial fetch is out and
\* the first EventSource is connecting.  failures, down, scheduled, drops and
\* fetched observe the hook: failures since the last `connected`, whether a
\* failure has happened since then, the delays the last failure scheduled,
\* the network errors so far, whether the last step started a fetch, and
\* the ticks since the last fetch went out.  since, burst, out and lag
\* observe the `change` events handed to the hook: the ticks since the last
\* one, how many have come each less than 300 ms after the one before, the
\* fetches debouncedRefetch has started for them, and the ticks between the
\* last one and that fetch.
Mounted ==
  connectSSE(fetchTree(
    [mounted |-> TRUE,
     mountedRef |-> TRUE,
     retryDelayRef |-> FirstRetryMs,
     alive |-> TRUE,
     eventSource |-> 0,
     pollInterval |-> NoTimer,
     timeouts |-> <<>>,
     debounceTimer |-> NoTimer,
     tree |-> [loaded |-> FALSE, outdated |-> FALSE],
     loading |-> TRUE,
     pending |-> <<>>,
     since |-> Ticks(RefetchMs),
     burst |-> 0,
     out |-> 0,
     lag |-> 0,
     sources |-> <<>>,
     failures |-> 0,
     down |-> FALSE,
     scheduled |-> <<>>,
     drops |-> 0,
     fetched |-> FALSE,
     idle |-> 0]))

\* What a step of the hook leaves behind: every new EventSource has made
\* its request, the stream of every EventSource that is no longer connected
\* is aborted, and a fetch that went out has seen the agent's writes.
Step(h) ==
  /\ hook' = h
  /\ LET w == IF Len(h.sources) > Len(watch) THEN Append(watch, Started) ELSE watch
     IN  watch' = [s \in DOMAIN w |->
                     IF h.sources[s].state \in {"closed", "retrying"}
                       THEN aborted(w[s])
                       ELSE w[s]]
  /\ agent' = IF h.fetched THEN [agent EXCEPT !.unseen = FALSE] ELSE agent
  /\ UNCHANGED fs
  /\ UNCHANGED routeVars

\* A step starts with no fetch started by it.
Quiet(h) == [h EXCEPT !.fetched = FALSE]

Mount ==
  /\ hook = NoHook
  /\ Step(Mounted)

Unmount ==
  /\ hook.mounted
  /\ hook.alive
  /\ Step(cleanup(Quiet(hook)))

\* The next event of its stream that EventSource k has not been handed.
Incoming(k) ==
  IF /\ hook.mounted
     /\ k \in DOMAIN hook.sources
     /\ hook.sources[k].state \in {"connecting", "open"}
     /\ hook.sources[k].read < Len(Events(watch[k]))
    THEN Events(watch[k])[hook.sources[k].read + 1]
    ELSE [event |-> "none"]

Received(h, k) == [h EXCEPT !.sources[k].read = @ + 1, !.sources[k].state = "open"]

OnConnected(k) ==
  /\ Incoming(k).event = "connected"
  /\ Step([onConnected(Received(Quiet(hook), k))
             EXCEPT !.sources[k].acked = TRUE, !.failures = 0, !.down = FALSE])

\* A `change` event is handed to a listener of the hook.
Notified(h) ==
  LET inBurst == h.burst >= 1 /\ h.since < Ticks(RefetchMs)
  IN  [h EXCEPT !.since = 0,
                !.burst = IF inBurst THEN @ + 1 ELSE 1,
                !.out = IF inBurst THEN @ ELSE 0]

OnChange(k) ==
  /\ Incoming(k).event = "change"
  /\ Step(debouncedRefetch(Notified(Received(Quiet(hook), k))))

\* The failure of a connection, as the handlers see it.
Failed(h) == [h EXCEPT !.failures = @ + 1, !.down = TRUE, !.scheduled = <<>>]

\* The stream's `error` event reaches EventSource k.
OnErrorEvent(k) ==
  /\ Incoming(k).event = "error"
  /\ Step(dispatchError(Failed(Received(Quiet(hook), k))))

\* Connection failures so far: streams that answered `error`, and network
\* errors.
Faults ==
  Cardinality({s \in DOMAIN watch : Count(watch[s], WatchError) > 0})
    + (IF hook.mounted THEN hook.drops ELSE 0)

\* The connection of EventSource k breaks: the browser fires `error` at it
\* and, unless a handler closes it, keeps it for its own retry.
NetworkError(k) ==
  /\ hook.mounted
  /\ k \in DOMAIN hook.sources
  /\ hook.sources[k].state \in {"connecting", "open"}
  /\ LET broken == [Quiet(hook) EXCEPT !.sources[k].state = "retrying", !.drops = @ + 1]
     IN  Step(dispatchError(Failed(broken)))

\* The reconnect timeouts the hook has set and that have not run.
Timeouts == IF hook.mounted THEN DOMAIN hook.timeouts ELSE {}

\* The timeout set by scheduleReconnect fires.
ReconnectFires(i) ==
  /\ hook.mounted
  /\ i \in DOMAIN hook.timeouts
  /\ Expired(hook.timeouts[i])
  /\ LET h == [Quiet(hook) EXCEPT
                 !.timeouts = SubSeq(@, 1, i - 1) \o SubSeq(@, i + 1, Len(@)),
                 !.pollInterval = NoTimer]
     IN  Step(connectSSE(h))

\* The poll interval fires.
PollFires ==
  /\ hook.mounted
  /\ Expired(hook.pollInterval)
  /\ LET h == [Quiet(hook) EXCEPT !.pollInterval = Timer(PollMs)]
     IN  Step(IF h.alive THEN fetchTree(h) ELSE h)

\* The tree requests that are not answered yet.
Fetches == IF hook.mounted THEN DOMAIN hook.pending ELSE {}

\* The response of the j-th pending tree request arrives.
OnTree(j) ==
  /\ hook.mounted
  /\ j \in DOMAIN hook.pending
  /\ Step(onTree(Quiet(hook), j))

\* The j-th pending tree request fails.
OnTreeError(j) ==
  /\ hook.mounted
  /\ j \in DOMAIN hook.pending
  /\ Step(onTreeError(Quiet(hook), j))

\* refresh(), called by the component that uses the hook.
Refresh ==
  /\ hook.mounted
  /\ hook.alive
  /\ Step(fetchTree(Quiet(hook)))

\* The timeout set by debouncedRefetch fires.
RefetchFires ==
  /\ hook.mounted
  /\ Expired(hook.debounceTimer)
  /\ LET h == [Quiet(hook) EXCEPT !.debounceTimer = NoTimer]
     IN  Step(IF h.alive
                THEN [fetchTree(h) EXCEPT !.out = @ + 1, !.lag = h.since]
                ELSE h)

(* ------------------------------------------------------------------ *)
(* The pipeline without a clock: an armed timer may come due at any     *)
(* moment.  The heartbeat comments of the streams, which no listener of *)
(* the hook is handed, are left out.                                    *)
(* ------------------------------------------------------------------ *)

Waiting(t) == t.armed /\ t.due > 0

Due(t) == [t EXCEPT !.due = 0]

LapseDebounce(s) ==
  /\ Waiting(watch[s].debounceTimer)
  /\ watch' = [watch EXCEPT ![s].debounceTimer = Due(@),
                            ![s].since = Ticks(DebounceMs)]
  /\ UNCHANGED <<fs, hook, agent>>
  /\ UNCHANGED routeVars

LapsePoll ==
  /\ hook.mounted
  /\ Waiting(hook.pollInterval)
  /\ hook' = [hook EXCEPT !.pollInterval = Due(@)]
  /\ UNCHANGED <<fs, watch, agent>>
  /\ UNCHANGED routeVars

LapseRefetch ==
  /\ hook.mounted
  /\ Waiting(hook.debounceTimer)
  /\ hook' = [hook EXCEPT !.debounceTimer = Due(@), !.since = Ticks(RefetchMs)]
  /\ UNCHANGED <<fs, watch, agent>>
  /\ UNCHANGED routeVars

LapseReconnect(i) ==
  /\ hook.mounted
  /\ i \in DOMAIN hook.timeouts
  /\ Waiting(hook.timeouts[i])
  /\ hook' = [hook EXCEPT !.timeouts[i] = Due(@)]
  /\ UNCHANGED <<fs, watch, agent>>
  /\ UNCHANGED routeVars

\* The agent writes while a tab is watching, within the writes of one
\* behaviour of the pipeline.
Edit(p) ==
  /\ agent.writes < MaxEdits
  /\ AgentWrites(p)

\* A connection breaks, within the failures of one behaviour.
Drop(k) ==
  /\ Faults < MaxFaults
  /\ NetworkError(k)

\* import("chokidar") rejects, within the failures of one behaviour.
Unavailable(s) ==
  /\ Faults < MaxFaults
  /\ ImportRejects(s)

\* The tree route answers at once: no tree request is on its way.
Settled == Fetches = {}

LiveNext ==
  \/ Settled /\ Mount
  \/ Settled /\ Unmount
  \/ Settled /\ \E k \in DOMAIN watch : OnConnected(k)
  \/ Settled /\ \E k \in DOMAIN watch : OnChange(k)
  \/ Settled /\ \E k \in DOMAIN watch : OnErrorEvent(k)
  \/ Settled /\ \E k \in DOMAIN watch : Drop(k)
  \/ Settled /\ \E i \in Timeouts : ReconnectFires(i)
  \/ Settled /\ PollFires
  \/ Settled /\ RefetchFires
  \/ \E j \in Fetches : OnTree(j)
  \/ Settled /\ \E s \in DOMAIN watch : ImportResolves(s)
  \/ Settled /\ \E s \in DOMAIN watch : Unavailable(s)
  \/ Settled /\ \E s \in DOMAIN watch : OnAll(s)
  \/ Settled /\ \E s \in DOMAIN watch : WatcherCloses(s)
  \/ Settled /\ \E s \in DOMAIN watch : DebounceFires(s)
  \/ Settled /\ \E p \in AgentPaths : Edit(p)
  \/ Settled /\ \E s \in DOMAIN watch : LapseDebounce(s)
  \/ Settled /\ LapsePoll
  \/ Settled /\ LapseRefetch
  \/ Settled /\ \E i \in Timeouts : LapseReconnect(i)

LiveSpec == Init /\ [][LiveNext]_vars

\* The same pipeline with every callback that is due and every event that
\* is on its way eventually run; the agent, the network, the import and the
\* user (mount, unmount) are free.
LiveFairness ==
  /\ WF_vars(\E k \in DOMAIN watch : OnConnected(k))
  /\ WF_vars(\E k \in DOMAIN watch : OnChange(k))
  /\ WF_vars(\E k \in DOMAIN watch : OnErrorEvent(k))
  /\ WF_vars(\E i \in Timeouts : ReconnectFires(i))
  /\ WF_vars(PollFires)
  /\ WF_vars(RefetchFires)
  /\ WF_vars(\E j \in Fetches : OnTree(j))
  /\ WF_vars(\E s \in DOMAIN watch : ImportResolves(s))
  /\ WF_vars(\E s \in DOMAIN watch : OnAll(s))
  /\ WF_vars(\E s \in DOMAIN watch : WatcherCloses(s))
  /\ WF_vars(\E s \in DOMAIN watch : DebounceFires(s))
  /\ WF_vars(\E s \in DOMAIN watch : LapseDebounce(s))
  /\ WF_vars(LapsePoll)
  /\ WF_vars(LapseRefetch)
  /\ WF_vars(\E i \in Timeouts : LapseReconnect(i))

FairLiveSpec == Init /\ [][LiveNext]_vars /\ LiveFairness

(* ------------------------------------------------------------------ *)
(* The pipeline with a tree route that takes its time: the response of  *)
(* a tree request arrives at any moment after the request, in any       *)
(* order, or the request fails.  No clock.                              *)
(* ------------------------------------------------------------------ *)

\* Tree requests on their way at once in one behaviour.
MaxPending == 2

\* A callback of the hook or a call of refresh() may start a tree request
\* within that number.
Room == Cardinality(Fetches) < MaxPending

SlowNext ==
  \/ Mount
  \/ Unmount
  \/ Room /\ Refresh
  \/ \E k \in DOMAIN watch : OnConnected(k)
  \/ \E k \in DOMAIN watch : OnChange(k)
  \/ \E k \in DOMAIN watch : OnErrorEvent(k)
  \/ \E k \in DOMAIN watch : Drop(k)
  \/ \E i \in Timeouts : ReconnectFires(i)
  \/ Room /\ PollFires
  \/ Room /\ RefetchFires
  \/ \E j \in Fetches : OnTree(j)
  \/ \E j \in Fetches : OnTreeError(j)
  \/ \E s \in DOMAIN watch : ImportResolves(s)
  \/ \E s \in DOMAIN watch : Unavailable(s)
  \/ \E s \in DOMAIN watch : OnAll(s)
  \/ \E s \in DOMAIN watch : WatcherCloses(s)
  \/ \E s \in DOMAIN watch : DebounceFires(s)
  \/ \E p \in AgentPaths : Edit(p)
  \/ \E s \in DOMAIN watch : LapseDebounce(s)
  \/ LapsePoll
  \/ LapseRefetch
  \/ \E i \in Timeouts : LapseReconnect(i)

SlowSpec == Init /\ [][SlowNext]_vars

(* ------------------------------------------------------------------ *)
(* Vocabulary of the hook properties                                    *)
(* ------------------------------------------------------------------ *)

\* The hook is mounted and its effects have not been cleaned up.
Alive == hook.mounted /\ hook.alive

\* The hook has been unmounted.
Unmounted == hook.mounted /\ ~hook.alive

\* The EventSources that are not closed.
OpenSources == {k \in DOMAIN hook.sources : hook.sources[k].state # "closed"}

\* The reconnect timeouts that are still to fire.
PendingReconnects == {i \in DOMAIN hook.timeouts : hook.timeouts[i].armed}

(* ------------------------------------------------------------------ *)
(* C14  Reconnect backoff: 1s, 2s, 4s, ... then reset                   *)
(* ------------------------------------------------------------------ *)

\* C14: after the k-th consecutive failure of a mounted client (k counted
\* since the last `connected`), that failure has scheduled exactly one
\* reconnect, with delay min(1s * 2^(k-1), 30s).
C14_BackoffSequence ==
  (Alive /\ hook.failures >= 1) =>
    hook.scheduled = <<Min(FirstRetryMs * 2 ^ (hook.failures - 1), MaxRetryMs)>>

(* ------------------------------------------------------------------ *)
(* C15  One connection per tab                                          *)
(* ------------------------------------------------------------------ *)

\* C15: a mounted hook has at most one EventSource that is not closed and
\* at most one pending reconnect timeout, and they are the ones its
\* variables eventSource and reconnectTimeout refer to.
C15_OneConnection ==
  Alive =>
    /\ Cardinality(OpenSources) <= 1
    /\ Cardinality(PendingReconnects) <= 1
    /\ \A k \in OpenSources : hook.eventSource = k
    /\ \A i \in PendingReconnects : hook.timeouts[i].held

(* ------------------------------------------------------------------ *)
(* C16  Unmount closes the connection and clears every timer            *)
(* ------------------------------------------------------------------ *)

\* C16: once the hook is unmounted, no EventSource it created is open and
\* none of its timers (poll interval, reconnect timeouts, debounce timer)
\* is armed.
C16_UnmountClearsAll ==
  Unmounted =>
    /\ OpenSources = {}
    /\ PendingReconnects = {}
    /\ ~hook.pollInterval.armed
    /\ ~hook.debounceTimer.armed

(* ------------------------------------------------------------------ *)
(* C17  Eventually consistent tree view                                 *)
(* ------------------------------------------------------------------ *)

\* C17: whenever the workspace has changed since the last tree fetch of a
\* mounted client went out, the client eventually starts a tree fetch (or
\* is unmounted).
C17_EventuallyFetched ==
  (hook.mounted /\ agent.unseen) ~> (~agent.unseen \/ Unmounted)

(* ------------------------------------------------------------------ *)
(* C19  Polling stops on reconnect, and not before                      *)
(* ------------------------------------------------------------------ *)

\* C19: while the EventSource the hook holds has received `connected`, no
\* poll interval is armed; and from a connection failure until the next
\* `connected` the poll interval is armed.
C19_PollingUntilConnected ==
  Alive =>
    /\ (hook.eventSource # 0 /\ hook.sources[hook.eventSource].acked)
         => ~hook.pollInterval.armed
    /\ hook.down => hook.pollInterval.armed

(* ------------------------------------------------------------------ *)
(* The hook against a server whose watch is unavailable, on the clock   *)
(* ------------------------------------------------------------------ *)

\* EventSources the hook creates in one behaviour against that server.
MaxConnections == 20

\* Connections refused while the server is still down.
MaxRefused == 5

\* The server and the network are prompt: nothing is on its way.
Prompt ==
  /\ Settled
  /\ \A k \in DOMAIN watch :
       /\ watch[k].start # "importing"
       /\ Incoming(k).event = "none"

\* Time passes once everything that is on its way has arrived.
Wait ==
  /\ Prompt
  /\ Tick

\* The server is still down: the connection of EventSource k is refused, as
\* every connection before it was.
Unreachable(k) ==
  /\ hook.mounted
  /\ k \in DOMAIN hook.sources
  /\ hook.sources[k].read = 0
  /\ hook.drops = k - 1
  /\ hook.drops < MaxRefused
  /\ NetworkError(k)

\* A reconnect timeout fires, within the connections of one behaviour.
\* Timeouts due at the same time run in the order in which they were set,
\* each after the answer to the connection before it has arrived.
Retry(i) ==
  /\ Len(watch) < MaxConnections
  /\ Prompt
  /\ hook.mounted
  /\ i \in DOMAIN hook.timeouts
  /\ \A j \in 1..(i - 1) : ~Expired(hook.timeouts[j])
  /\ ReconnectFires(i)

DegradedNext ==
  \/ Mount
  \/ \E k \in DOMAIN watch : OnConnected(k)
  \/ \E k \in DOMAIN watch : OnErrorEvent(k)
  \/ \E k \in DOMAIN watch : Unreachable(k)
  \/ \E s \in DOMAIN watch : ImportRejects(s)
  \/ \E i \in Timeouts : Retry(i)
  \/ PollFires
  \/ \E j \in Fetches : OnTree(j)
  \/ Wait

DegradedSpec == Init /\ [][DegradedNext]_vars

(* ------------------------------------------------------------------ *)
(* The pipeline on the clock, with a tree route that answers at once.   *)
(* Heartbeat comments are left out; the clock is followed while a       *)
(* timeout or the poll interval is running.  The poll interval never    *)
(* comes due: the first reconnect timeout clears it after 1 s.          *)
(* ------------------------------------------------------------------ *)

\* A debounce timeout, a reconnect timeout or the poll interval is running.
Busy ==
  \/ \E s \in DOMAIN watch : watch[s].debounceTimer.armed
  \/ \E t \in HookTimers : t.armed

\* Writes of the agent in one behaviour on the clock.
MaxBurst == 2

Rewrite(p) ==
  /\ agent.writes < MaxBurst
  /\ AgentWrites(p)

\* Time passes once everything that is on its way has arrived and every
\* raw event has been handed to its listener.
Pass ==
  /\ Busy
  /\ Prompt
  /\ \A s \in DOMAIN watch : watch[s].raw = <<>>
  /\ Tick

ClientNext ==
  \/ Settled /\ Mount
  \/ Settled /\ Unmount
  \/ Settled /\ \E k \in DOMAIN watch : OnConnected(k)
  \/ Settled /\ \E k \in DOMAIN watch : OnChange(k)
  \/ Settled /\ \E k \in DOMAIN watch : Drop(k)
  \/ Settled /\ \E i \in Timeouts : ReconnectFires(i)
  \/ Settled /\ RefetchFires
  \/ \E j \in Fetches : OnTree(j)
  \/ Settled /\ \E s \in DOMAIN watch : ImportResolves(s)
  \/ Settled /\ \E s \in DOMAIN watch : OnAll(s)
  \/ Settled /\ \E s \in DOMAIN watch : WatcherCloses(s)
  \/ Settled /\ \E s \in DOMAIN watch : DebounceFires(s)
  \/ Settled /\ Rewrite("/ws/notes.md")
  \/ Pass

ClientSpec == Init /\ [][ClientNext]_vars

(* ------------------------------------------------------------------ *)
(* C18  An unavailable watch degrades to polling                        *)
(* ------------------------------------------------------------------ *)

\* C18: while every connection is answered `connected` then `error`, a
\* mounted client starts a tree fetch every 5 s: no more than one poll
\* period passes without one.
C18_KeepsPolling ==
  (Alive /\ hook.drops = 0) => hook.idle * TickMs <= PollMs

(* ------------------------------------------------------------------ *)
(* Concurrent mutation requests                                         *)
(* ------------------------------------------------------------------ *)

\* The requests that may be in flight together: renames, moves, copies and
\* mkdirs that aim at the same few targets, at targets that exist, and at
\* free ones; one system file, one body that does not parse.
RaceRenames ==
  {BadJson, [path |-> "a.txt", newName |-> "d.txt"]}
    \cup {[path |-> p, newName |-> m] : p \in {"a.txt", "b.txt"}, m \in {"c.txt", "b.txt"}}

RaceMoves ==
  {[sourcePath |-> "a.txt", destinationDir |-> "."],
   [sourcePath |-> "a.txt", destinationDir |-> "foo/bar"]}
    \cup {[sourcePath |-> p, destinationDir |-> "foo"] :
            p \in {"a.txt", "foo/bar", "workspace.duckdb"}}

RaceCopies ==
  {[path |-> "a.txt"], [path |-> "b.txt", destinationPath |-> "foo/a.txt"]}
    \cup {[path |-> p, destinationPath |-> "c.txt"] : p \in {"a.txt", "b.txt"}}

RaceMkdirs == {[path |-> p] : p \in {"c.txt", "foo/a.txt", "foo"}}

\* The handler of one route, from the parsed body to its return.
Run(op, body, disk) ==
  CASE op = "rename" -> RenamePOST(body, disk)
    [] op = "move" -> MovePOST(body, disk)
    [] op = "copy" -> CopyPOST(body, disk)
    [] op = "mkdir" -> MkdirPOST(body, disk)

\* The path at which a request is to create an entry ("" when its arguments
\* name none): the new name beside the renamed entry, the moved entry's name
\* in the destination directory, the copy's destination, the new directory.
Intended(op, body, disk) ==
  LET sent == IF op = "copy" THEN Field(body, "destinationPath") ELSE Field(body, "path")
      src == Named(IF op = "move" THEN Field(body, "sourcePath") ELSE Field(body, "path"), disk)
      dst == Named(Field(body, "destinationDir"), disk)
      asSent == IF sent = "" \/ HasDotDot(sent) \/ StartsWith(sent, "/") \/ Includes(sent, "\\")
                  THEN ""
                ELSE IF ~BelowRoot(Resolve(Root, sent)) THEN ""
                ELSE Resolve(Root, sent)
  IN  CASE op = "mkdir" -> asSent
        [] op = "rename" ->
             IF src = "" \/ Field(body, "newName") = "" \/ InvalidName(Field(body, "newName"))
               THEN ""
               ELSE Child(Dirname(src), Field(body, "newName"))
        [] op = "move" ->
             IF src = "" \/ dst = "" THEN ""
             ELSE IF ~disk[dst].dir THEN ""
             ELSE Child(dst, Basename(src))
        [] op = "copy" ->
             IF src = "" THEN ""
             ELSE IF sent # "" THEN asSent
             ELSE Resolve(Root, CopyName(Field(body, "path")))
        [] OTHER -> ""

\* A request arrives in the next free slot; its handler runs to
\* `await req.json()`.
Arrive(i, op, body) ==
  /\ inflight[i] = Idle
  /\ \A j \in 1..(i - 1) : inflight[j] # Idle
  /\ inflight' = [inflight EXCEPT ![i] = [stage |-> "parsing", op |-> op, body |-> body]]
  /\ UNCHANGED <<fs, req, resp, io, prev, n>>
  /\ UNCHANGED liveVars

\* The handler of the request in slot i returns out, having aimed at target;
\* turn numbers the handlers in the order in which they ran.
Return(i, out, target) ==
  /\ fs' = out.disk
  /\ req' = [op |-> inflight[i].op, body |-> inflight[i].body]
  /\ resp' = out.resp
  /\ io' = out.io
  /\ prev' = fs
  /\ inflight' = [inflight EXCEPT ![i] =
                    [stage |-> "done", op |-> @.op, body |-> @.body,
                     status |-> out.resp.status, target |-> target,
                     turn |-> n + 1]]
  /\ n' = n + 1
  /\ UNCHANGED liveVars

\* The body of the request in slot i has been read: its handler resumes and
\* runs to its return, on the disk as it is now.
Resume(i) ==
  /\ inflight[i].stage = "parsing"
  /\ Return(i, Run(inflight[i].op, inflight[i].body, fs),
            Intended(inflight[i].op, inflight[i].body, fs))

RaceNext ==
  \/ \E i \in 1..MaxInflight, body \in RaceRenames : Arrive(i, "rename", body)
  \/ \E i \in 1..MaxInflight, body \in RaceMoves : Arrive(i, "move", body)
  \/ \E i \in 1..MaxInflight, body \in RaceCopies : Arrive(i, "copy", body)
  \/ \E i \in 1..MaxInflight, body \in RaceMkdirs : Arrive(i, "mkdir", body)
  \/ \E i \in 1..MaxInflight : Resume(i)

RaceSpec == Init /\ [][RaceNext]_vars

(* ------------------------------------------------------------------ *)
(* C20  No silent overwrite                                             *)
(* ------------------------------------------------------------------ *)

\* The target of the request that ran last, on the disk it found.
Target == Intended(req.op, req.body, prev)

\* The request that ran last was turned down before its target was looked
\* at: a body that does not parse, a system file, a folder moved into itself.
Barred ==
  \/ ParseFails(req.body)
  \/ req.op \in {"rename", "move"} /\ isSystemFile(SourceArg)
  \/ req.op = "move" /\ MoveSource # "" /\ MoveDest # "" /\ WithinDir(MoveDest, MoveSource)

\* The requests that have returned 200.
Winners == {i \in 1..MaxInflight : inflight[i].stage = "done" /\ inflight[i].status = 200}

\* C20: a Rename, Move, Copy or Mkdir whose target exists when its handler
\* looks at it returns 409 and changes nothing; one that succeeds found its
\* target free and has replaced no entry; and, however the handlers of the
\* requests in flight interleave, two requests with the same target whose
\* handlers run one after the other never both succeed.
C20_NoSilentOverwrite ==
  /\ (Handled /\ req.op \in {"rename", "move", "copy", "mkdir"}) =>
       /\ (Target # "" /\ Target \in DOMAIN prev) =>
            /\ Untouched
            /\ ~Barred => resp.status = 409
       /\ resp.status = 200 =>
            /\ Target # ""
            /\ Target \notin DOMAIN prev
            /\ Target \in DOMAIN fs
            /\ \A q \in DOMAIN prev \cap DOMAIN fs : fs[q] = prev[q]
  /\ \A i, j \in Winners :
       inflight[j].turn = inflight[i].turn + 1 => inflight[i].target # inflight[j].target

\* Two renames to c.txt were in flight together: the one that resumed first
\* has won, the other found c.txt taken and got 409 after both had arrived.
C20_Witness ==
  /\ \A i \in 1..MaxInflight :
       /\ inflight[i].stage = "done"
       /\ inflight[i].op = "rename"
       /\ inflight[i].target = "/ws/c.txt"
  /\ inflight[1].body.path = "a.txt"
  /\ inflight[2].body.path = "b.txt"
  /\ inflight[1].status = 409
  /\ inflight[2].status = 200
  /\ fs["/ws/c.txt"] = File("B")
  /\ "/ws/a.txt" \in DOMAIN fs

(* ------------------------------------------------------------------ *)
(* C21  State unchanged on rejection                                    *)
(* ------------------------------------------------------------------ *)

\* The statuses of the rejections: invalid input, type mismatch and
\* self-containment (400), system file (403), not found or traversal (404),
\* conflict (409).
Rejections == {400, 403, 404, 409}

\* C21: a Delete, Rename, Move, Copy or Mkdir that ends in one of the
\* rejections has made no node:fs call that changes the disk, and the disk
\* is, entry for entry, as it was before the request.
C21_UnchangedOnRejection ==
  (/\ Handled
   /\ req.op \in {"delete", "rename", "move", "copy", "mkdir"}
   /\ resp.status \in Rejections) =>
    /\ io = <<>>
    /\ DOMAIN fs = DOMAIN prev
    /\ \A q \in DOMAIN prev : fs[q] = prev[q]

\* After a.txt has been moved into foo, the request to delete the database
\* file is refused and the disk stays as the move left it.
C21_Witness ==
  /\ n = 2
  /\ req.op = "delete"
  /\ Field(req.body, "path") = "workspace.duckdb"
  /\ resp.status = 403
  /\ "/ws/foo/a.txt" \in DOMAIN fs
  /\ "/ws/workspace.duckdb" \in DOMAIN fs
  /\ fs = prev

(* ------------------------------------------------------------------ *)
(* C22  Rename and Move echo the real new location                      *)
(* ------------------------------------------------------------------ *)

\* C22: after a successful Rename or Move the entry that was at the source
\* is at the returned newPath, resolved against the workspace root, and
\* nothing is at the returned oldPath.
C22_EchoedPaths ==
  (Succeeded /\ req.op \in {"rename", "move"}) =>
    LET old == Named(SourceArg, prev)
        new == Resolve(Root, resp.newPath)
    IN  /\ old # ""
        /\ new \in DOMAIN fs
        /\ fs[new] = prev[old]
        /\ Resolve(Root, resp.oldPath) \notin DOMAIN fs

(* ------------------------------------------------------------------ *)
(* C23  Rename stays in the same directory                              *)
(* ------------------------------------------------------------------ *)

\* A name that is one path segment: no separator, not blank.
SingleSegment(name) ==
  /\ \A i \in 1..Len(name) : Char(name, i) \notin {"/", "\\"}
  /\ \E i \in 1..Len(name) : Char(name, i) \notin {" ", "\t", "\n"}

\* A Rename request that carries both of its fields.
RenameSent ==
  /\ Handled
  /\ req.op = "rename"
  /\ {"path", "newName"} \subseteq DOMAIN req.body

InvalidFileName == Failure(400, "Invalid file name")

\* A successful Rename has left the entry in its directory under newName.
SameDirectory ==
  resp.status = 200 =>
    LET old == Named(req.body.path, prev)
        new == Child(Dirname(old), req.body.newName)
    IN  /\ old # ""
        /\ Dirname(new) = Dirname(old)
        /\ Basename(new) = req.body.newName
        /\ Relocated(prev, fs, old, new)

\* C23 as stated: a Rename whose newName is not a single segment fails with
\* "Invalid file name" and changes nothing; with any other newName a
\* successful Rename leaves the entry in the same directory under newName.
C23_AsStated ==
  RenameSent =>
    IF ~SingleSegment(req.body.newName)
      THEN resp = InvalidFileName /\ Untouched
      ELSE SameDirectory

\* C23, amended: a Rename whose newName is not a single segment fails and
\* changes nothing: as a missing field when newName is the empty string,
\* with "Cannot rename system file" when isSystemFile holds of path as sent,
\* with "Invalid file name" otherwise; with any other newName a successful
\* Rename leaves the entry in the same directory under newName.
C23_RenameSameDirectory ==
  RenameSent =>
    IF ~SingleSegment(req.body.newName)
      THEN /\ Untouched
           /\ resp = IF req.body.path = "" \/ req.body.newName = ""
                       THEN Failure(400, "Missing 'path' and 'newName' fields")
                     ELSE IF isSystemFile(req.body.path)
                       THEN Failure(403, "Cannot rename system file")
                     ELSE InvalidFileName
      ELSE SameDirectory

\* After foo/bar has been renamed to c.txt inside foo, a Rename of it to x/y
\* is refused as an invalid file name.
C23_Witness ==
  /\ n = 2
  /\ req.op = "rename"
  /\ Field(req.body, "newName") = "x/y"
  /\ resp = InvalidFileName
  /\ "/ws/foo/c.txt" \in DOMAIN fs
  /\ "/ws/foo/bar" \notin DOMAIN fs
  /\ fs = prev

(* ------------------------------------------------------------------ *)
(* C24  Cancellation of a watch stream is synchronous and final         *)
(* ------------------------------------------------------------------ *)

\* C24: when the cancel the route installed has run on a stream, neither
\* its heartbeat interval nor its debounce timer is armed, and from then on
\* no step arms one of them or enqueues anything on that stream, whether or
\* not the listener still runs for raw events that were pending.
C24_CancelIsFinal ==
  [][\A s \in DOMAIN watch :
       /\ watch'[s].closed =>
            /\ ~watch'[s].heartbeat.armed
            /\ ~watch'[s].debounceTimer.armed
       /\ watch[s].closed =>
            /\ watch'[s].closed
            /\ watch'[s].sent = watch[s].sent]_vars

\* The stream was cancelled with raw events pending, the listener has run
\* for one of them, and the stream holds what it had enqueued before: the
\* `connected` event and one `change`.
C24_Witness ==
  \E s \in DOMAIN watch :
    /\ watch[s].closed
    /\ watch[s].late
    /\ watch[s].watcher = "closed"
    /\ Len(watch[s].sent) = 2
    /\ Count(watch[s], Connected) = 1
    /\ ~watch[s].heartbeat.armed
    /\ ~watch[s].debounceTimer.armed

(* ------------------------------------------------------------------ *)
(* C25  A `change` event carries the last raw event of its burst        *)
(* ------------------------------------------------------------------ *)

\* The path of an entry below the workspace root, from the root.
FromRoot(abs) ==
  JoinSegs(SubSeq(Split(abs), Len(Split(Root)) + 1, Len(Split(abs))))

\* The `change` event the stream enqueued last.
LastChange(st) ==
  LET at == {i \in 1..Len(st.sent) : st.sent[i].event = "change"}
  IN  st.sent[CHOOSE i \in at : \A j \in at : j <= i]

\* C25: once the `change` event of a burst has been enqueued on an open
\* stream, it carries the kind and the workspace-relative path of the last
\* raw event of the burst.
C25_LastEventPayload ==
  \A s \in DOMAIN watch :
    LET st == watch[s]
    IN  (Flowing(st) /\ st.burst >= 1 /\ st.out >= 1) =>
          LastChange(st) = Change(st.last.type, FromRoot(st.last.path))

\* notes.md was created and then written within 200 ms: the one `change`
\* event says "change", not "add".
C25_Witness ==
  \E s \in DOMAIN watch :
    /\ Flowing(watch[s])
    /\ watch[s].burst = 2
    /\ watch[s].out = 1
    /\ watch[s].sent = <<Connected, Change("change", "notes.md")>>
    /\ agent.writes = 2

(* ------------------------------------------------------------------ *)
(* C26  Backoff bound                                                   *)
(* ------------------------------------------------------------------ *)

\* 1s, 2s, 4s, 8s, 16s, 30s.
Delays == {Min(FirstRetryMs * 2 ^ k, MaxRetryMs) : k \in 0..5}

Doubled(delay) == Min(2 * delay, MaxRetryMs)

\* This step handed `connected` to an EventSource.
Acknowledged ==
  \E k \in DOMAIN hook.sources : ~hook.sources[k].acked /\ hook'.sources[k].acked

\* C26: the stored reconnect delay is always one of 1s, 2s, 4s, 8s, 16s,
\* 30s.  A step in which a connection fails schedules reconnects with the
\* stored delay, doubling it (up to 30s) with each one, none of them due
\* sooner than 1s; a step that receives `connected` sets it to 1s; no other
\* step changes it.
C26_BackoffBound ==
  [][hook'.mounted =>
       /\ hook'.retryDelayRef \in Delays
       /\ hook.mounted =>
            LET new == hook'.scheduled
                set == (Len(hook.timeouts) + 1)..Len(hook'.timeouts)
            IN  IF hook'.failures = hook.failures + 1 /\ new # <<>>
                  THEN /\ new[1] = hook.retryDelayRef
                       /\ \A i \in 2..Len(new) : new[i] = Doubled(new[i - 1])
                       /\ hook'.retryDelayRef = Doubled(new[Len(new)])
                       /\ Cardinality(set) = Len(new)
                       /\ \A i \in set :
                            /\ hook'.timeouts[i].due * TickMs >= FirstRetryMs
                            /\ hook'.timeouts[i].delay \in Delays
                ELSE IF Acknowledged
                  THEN hook'.retryDelayRef = FirstRetryMs
                ELSE hook'.retryDelayRef = hook.retryDelayRef]_vars

\* Three refused connections in a row: the third has scheduled reconnects
\* after 16s and 30s and the stored delay has stopped at 30s.
C26_Witness ==
  /\ Alive
  /\ hook.failures = 3
  /\ hook.scheduled = <<16000, 30000>>
  /\ hook.retryDelayRef = MaxRetryMs

(* ------------------------------------------------------------------ *)
(* C27  Debounce on the client                                          *)
(* ------------------------------------------------------------------ *)

\* C27: `change` events handed to a mounted hook, each less than 300 ms
\* after the one before, have started no tree fetch while fewer than 300 ms
\* have passed since the last of them and exactly one once the timeout has
\* run, 300 ms after the last of them, whether or not a connection has
\* failed in between; once the hook is unmounted they start none.
C27_ClientDebounce ==
  /\ [](hook.mounted /\ hook.burst >= 1 =>
          /\ hook.since < Ticks(RefetchMs) => hook.out = 0
          /\ hook.out <= 1
          /\ hook.out = 1 => hook.lag * TickMs = RefetchMs
          /\ (hook.alive /\ hook.since = Ticks(RefetchMs) /\ ~hook.debounceTimer.armed)
               => hook.out = 1)
  /\ [][Unmounted => hook'.out <= hook.out]_vars

\* Two `change` events 200 ms apart, then the connection broke, then the
\* one fetch for both went out.
C27_Witness ==
  /\ Alive
  /\ hook.burst = 2
  /\ hook.out = 1
  /\ hook.fetched
  /\ hook.drops = 1
  /\ Len(hook.sources) = 1

(* ------------------------------------------------------------------ *)
(* C28  The tree shown is that of the latest fetch                      *)
(* ------------------------------------------------------------------ *)

\* C28: once every tree request of a mounted hook has been answered, the
\* tree the hook exposes is not the response of a request that a request
\* started after it had overtaken.
C28_LatestSnapshot ==
  (Alive /\ hook.pending = <<>> /\ hook.tree.loaded) => ~hook.tree.outdated

(* ------------------------------------------------------------------ *)
(* C29  Nothing happens after unmount                                   *)
(* ------------------------------------------------------------------ *)

\* C29: a step taken once the hook is unmounted starts no tree request,
\* creates no EventSource and leaves tree, exists and loading as they were.
C29_QuietAfterUnmount ==
  [][Unmounted =>
       /\ ~hook'.fetched
       /\ Len(hook'.pending) <= Len(hook.pending)
       /\ Len(hook'.sources) = Len(hook.sources)
       /\ hook'.tree = hook.tree
       /\ hook'.loading = hook.loading]_vars

\* The hook was unmounted with its first tree request unanswered and, after
\* a network error, with the 1 s reconnect timeout running; the response
\* has arrived and the timeout has fired since.
C29_Witness ==
  /\ Unmounted
  /\ hook.loading
  /\ hook.pending = <<>>
  /\ hook.drops = 1
  /\ hook.timeouts = <<>>
  /\ Len(hook.sources) = 1

(* ------------------------------------------------------------------ *)
(* C30  Two renames or moves of one entry                               *)
(* ------------------------------------------------------------------ *)

\* The requests whose handlers have returned.
Returned == {i \in 1..MaxInflight : inflight[i].stage = "done"}

\* The entry the request in slot i names as its source, and the path at
\* which it is to put it, on the disk as it was before any request.
Source(i) ==
  Named(IF inflight[i].op = "move"
          THEN Field(inflight[i].body, "sourcePath")
          ELSE Field(inflight[i].body, "path"),
        InitialDisk)

Goal(i) == Intended(inflight[i].op, inflight[i].body, InitialDisk)

\* The request in slot i is a Rename or a Move that succeeds when it is the
\* only one: its source exists and its target is free.
Alone(i) ==
  /\ inflight[i].op \in {"rename", "move"}
  /\ Run(inflight[i].op, inflight[i].body, InitialDisk).resp.status = 200

\* C30: of two Renames or Moves of the same entry to different free targets
\* that were in flight together, the one whose handler ran first has
\* succeeded and the other has failed with 404; the entry is at the target
\* of the first, and neither at its old path nor at the target of the other.
C30_OneWinner ==
  \A i, j \in 1..MaxInflight :
    (/\ Returned = {i, j}
     /\ Alone(i) /\ Alone(j)
     /\ Source(i) = Source(j)
     /\ Goal(i) # Goal(j)
     /\ inflight[i].turn < inflight[j].turn) =>
      /\ inflight[i].status = 200
      /\ inflight[j].status = 404
      /\ Source(i) \notin DOMAIN fs
      /\ Goal(j) \notin DOMAIN fs
      /\ Goal(i) \in DOMAIN fs
      /\ fs[Goal(i)] = InitialDisk[Source(i)]

\* Renames of a.txt to c.txt and to d.txt were in flight together: the
\* second to arrive resumed first and won, the first got 404.
C30_Witness ==
  /\ \A i \in 1..MaxInflight : inflight[i].stage = "done" /\ inflight[i].op = "rename"
  /\ inflight[1].body = [path |-> "a.txt", newName |-> "c.txt"]
  /\ inflight[2].body = [path |-> "a.txt", newName |-> "d.txt"]
  /\ inflight[2].turn < inflight[1].turn
  /\ inflight[1].status = 404
  /\ inflight[2].status = 200
  /\ fs["/ws/d.txt"] = File("A")
  /\ "/ws/a.txt" \notin DOMAIN fs
  /\ "/ws/c.txt" \notin DOMAIN fs

====
